---------------------------- MODULE Spec2Model ----------------------------
(***************************************************************************)
(* pyjsparser: an ECMAScript 5 lexer (pyjsparser/lexer.py) and yacc        *)
(* grammar (pyjsparser/parser.py) on top of ply.  The model follows one    *)
(* call of Parser.parse: the scanner rules of class Lexer, the token       *)
(* proxy Lexer.token with its semicolon insertion, the LALR(1) automaton   *)
(* that ply.yacc builds from the docstrings of the p_ functions, the       *)
(* p_ functions themselves and the error handler p_error.                  *)
(*                                                                         *)
(* The source text is a sequence of atoms.  An atom is one character, or   *)
(* a run of characters of one class written as a unit (a word of letters,  *)
(* a run of digits); a scanner rule never ends inside an atom.             *)
(*                                                                         *)
(* The grammar names the terminals COMMENT, REGEX, GET and SET, which the  *)
(* lexer does not declare; they are kept as terminals that no token ever   *)
(* carries.  The driver is that of ply 3.2 .. 3.4 (setup.py: ply>=3.2).    *)
(***************************************************************************)
EXTENDS Integers, Sequences, FiniteSets, TLC

(***************************************************************************)
(* Python values.  Every value is a record with a field k (its kind);      *)
(* a field of a given name holds values of one shape in every kind.        *)
(***************************************************************************)
None == [k |-> "None"]
Str(s) == [k |-> "str", s |-> s]
List(items) == [k |-> "list", items |-> items]
Tuple(items) == [k |-> "tuple", items |-> items]
\* an exception: its class and the fixed part of its message
Exc(name, msg) == [k |-> "exc", s |-> name, msg |-> msg]
IsExc(v) == v.k = "exc"
IsList(v) == v.k = "list"
\* Python truth of the values that are tested in the source: x or []
Truthy(v) == ~(v.k = "None" \/ (v.k = "list" /\ v.items = <<>>))

(***************************************************************************)
(* pyjsparser/ast.py: the node constructors, with the attributes each      *)
(* __init__ sets.                                                          *)
(***************************************************************************)
Program(statements) ==
  [k |-> "Program", statements |-> IF Truthy(statements) THEN statements ELSE List(<<>>)]
BlockComment(data) == [k |-> "BlockComment", data |-> data]
LineComment(data) == [k |-> "LineComment", data |-> data]
Boolean(value) == [k |-> "Boolean", value |-> value]
Number(value) == [k |-> "Number", value |-> value]
String(data) == [k |-> "String", data |-> data]
Object(properties) == [k |-> "Object", properties |-> properties]
RegEx(pattern, flags) == [k |-> "RegEx", pattern |-> pattern, flags |-> flags]
Identifier(name) == [k |-> "Identifier", name |-> name]
VariableDeclaration(node, expression) ==
  [k |-> "VariableDeclaration", node |-> node, expr |-> expression]
Assign(node, operator, expression) ==
  [k |-> "Assign", node |-> node, operator |-> operator, expr |-> expression]
UnaryOp(operator, value, postfix) ==
  [k |-> "UnaryOp", operator |-> operator, value |-> value, postfix |-> postfix]
BinOp(operator, left, right) ==
  [k |-> "BinOp", operator |-> operator, left |-> left, right |-> right]
If(expression, true, false) ==
  [k |-> "If", expr |-> expression, true |-> true, false |-> false]
Switch(expression, cases, default) ==
  [k |-> "Switch", expression |-> expression,
   cases |-> IF Truthy(cases) THEN cases ELSE List(<<>>), default |-> default]
Case(identifier, statements) ==
  [k |-> "Case", identifier |-> identifier, statements |-> statements]
\* class DefaultCase(Case): Case.__init__(self, 'default', statements)
DefaultCase(statements) ==
  [k |-> "DefaultCase", identifier |-> Str("default"), statements |-> statements]
For(initialisers, conditions, increments, statement) ==
  [k |-> "For", initialisers |-> initialisers, conditions |-> conditions,
   increments |-> increments, statement |-> statement]
ForIn(item, iterator, statement) ==
  [k |-> "ForIn", item |-> item, iterator |-> iterator, statement |-> statement]
DoWhile(condition, statement) ==
  [k |-> "DoWhile", condition |-> condition, statement |-> statement]
While(condition, statement) ==
  [k |-> "While", condition |-> condition, statement |-> statement]
With(expression, statement) ==
  [k |-> "With", expression |-> expression, statement |-> statement]
LabelledStatement(identifier, statement) ==
  [k |-> "LabelledStatement", identifier |-> identifier, statement |-> statement]
FuncDecl(node, parameters, statements) ==
  [k |-> "FuncDecl", node |-> node, parameters |-> parameters, statements |-> statements]
FuncCall(node, arguments) == [k |-> "FuncCall", node |-> node, arguments |-> arguments]
New(identifier, arguments) ==
  [k |-> "New", identifier |-> identifier,
   arguments |-> IF Truthy(arguments) THEN arguments ELSE List(<<>>)]
Return(expression) == [k |-> "Return", expression |-> expression]
Continue(identifier) == [k |-> "Continue", identifier |-> identifier]
Break(identifier) == [k |-> "Break", identifier |-> identifier]
Throw(expression) == [k |-> "Throw", expression |-> expression]
Try(statements, catch, finally_) ==
  [k |-> "Try", statements |-> statements, catch |-> catch, finally_ |-> finally_]
Catch(identifier, statements) ==
  [k |-> "Catch", identifier |-> identifier, statements |-> statements]
Finally(statements) == [k |-> "Finally", statements |-> statements]


(***************************************************************************)
(* pyjsparser/ast.py: Node.__iter__ and the NodeVisitor.                   *)
(***************************************************************************)
\* isinstance(v, Node)
IsNode(v) == v.k \notin {"None", "str", "list", "tuple", "exc"}

\* Node.__iter__: the values of self._fields, as the __init__ of the class sets it
fields(node) ==
  CASE node.k \in {"Program", "FuncDecl", "Case", "DefaultCase", "Catch", "Finally"} -> <<node.statements>>
    [] node.k = "Object" -> <<node.properties>>
    [] node.k \in {"VariableDeclaration", "Assign"} -> <<node.expr>>
    [] node.k = "BinOp" -> <<node.left, node.right>>
    [] node.k = "If" -> <<node.true, node.false>>
    [] node.k = "Switch" -> <<node.cases, node.default>>
    [] node.k \in {"For", "ForIn", "DoWhile", "While", "LabelledStatement"} -> <<node.statement>>
    [] node.k = "With" -> <<node.expression, node.statement>>
    [] node.k = "FuncCall" -> <<node.node>>
    [] node.k \in {"Return", "Throw"} -> <<node.expression>>
    [] node.k = "Try" -> <<node.statements, node.catch, node.finally_>>
    [] OTHER -> <<>>

RECURSIVE visit(_), generic_visit(_), VisitChildren(_, _), VisitSubchildren(_, _)
\* NodeVisitor.visit(node): the nodes visited, in the order of the visits
visit(node) == <<node>> \o generic_visit(node)

\* NodeVisitor.generic_visit(node).  for child in node goes through the fields
\* of a Node, the items of a list or tuple, the characters of a str (none of
\* them a list or a Node); on None it raises the TypeError that is caught here
generic_visit(node) ==
  VisitChildren(IF IsNode(node) THEN fields(node)
                ELSE IF node.k \in {"list", "tuple"} THEN node.items
                ELSE <<>>, 1)

\* the turns n, n+1, ... of the loop for child in node
VisitChildren(children, n) ==
  IF n > Len(children) THEN <<>>
  ELSE (IF IsList(children[n]) THEN VisitSubchildren(children[n].items, 1)
        ELSE IF IsNode(children[n]) THEN visit(children[n])
        ELSE <<>>)
       \o VisitChildren(children, n + 1)

\* the turns n, n+1, ... of the loop for subchild in child
VisitSubchildren(items, n) ==
  IF n > Len(items) THEN <<>>
  ELSE (IF IsNode(items[n]) THEN visit(items[n]) ELSE generic_visit(items[n]))
       \o VisitSubchildren(items, n + 1)
(***************************************************************************)
(* The scanner: the rules of class Lexer as ply.lex applies them.  ply     *)
(* tries the rules given as functions first, in source order, then the     *)
(* rules given as strings, longest regular expression first; the first     *)
(* rule that matches at the current position makes the token.              *)
(***************************************************************************)
LineTermChars == {"\n", "\r"}
\* \s of the regular expressions
SpaceChars == {" ", "\t", "\n", "\r", "\f"}
\* t_ignore
IgnoreChars == {" ", "\t"}
\* atoms made of letters [a-zA-Z]
LetterAtoms ==
  {"a", "b", "c", "d", "e", "g", "i", "p", "q", "x", "y", "X", "foo", "bar",
   "function", "var", "continue", "return", "if", "else", "break", "true", "false",
   "this", "new", "instanceof", "in", "delete", "typeof", "void", "null", "while",
   "do", "for", "try", "throw", "catch", "default", "finally", "case", "with",
   "debugger", "switch"}
\* atoms made of digits [0-9]
DigitAtoms == {"0", "1", "2", "100"}
\* identifier = r'[a-zA-Z_$][0-9a-zA-Z_$]*'
IdStartAtoms == LetterAtoms \cup {"_", "$"}
IdAtoms == IdStartAtoms \cup DigitAtoms
HexAtoms == DigitAtoms \cup {"a", "b", "c", "d", "e"}

\* keywords_map, filled by _prepare_tokens from Lexer.keywords
keywords_map ==
  [function |-> "FUNCTION", var |-> "VAR", continue |-> "CONTINUE", return |-> "RETURN",
   if |-> "IF", else |-> "ELSE", break |-> "BREAK", true |-> "TRUE", false |-> "FALSE",
   this |-> "THIS", new |-> "NEW", instanceof |-> "INSTANCEOF", in |-> "IN",
   delete |-> "DELETE", typeof |-> "TYPEOF", void |-> "VOID", null |-> "NULL",
   while |-> "WHILE", do |-> "DO", for |-> "FOR", try |-> "TRY", throw |-> "THROW",
   catch |-> "CATCH", default |-> "DEFAULT", finally |-> "FINALLY", case |-> "CASE",
   with |-> "WITH", debugger |-> "DEBUGGER", switch |-> "SWITCH"]

RECURSIVE Join(_, _, _)
\* the text of atoms i .. j-1
Join(s, i, j) == IF i >= j THEN "" ELSE s[i] \o Join(s, i + 1, j)

RECURSIVE CharLen(_, _, _)
\* the number of characters in atoms i .. j-1
CharLen(s, i, j) == IF i >= j THEN 0 ELSE Len(s[i]) + CharLen(s, i + 1, j)

\* the atoms of more than one character, with their characters
AtomChars ==
  {<<"foo", <<"f", "o", "o">>>>, <<"bar", <<"b", "a", "r">>>>,
   <<"function", <<"f", "u", "n", "c", "t", "i", "o", "n">>>>, <<"var", <<"v", "a", "r">>>>,
   <<"continue", <<"c", "o", "n", "t", "i", "n", "u", "e">>>>,
   <<"return", <<"r", "e", "t", "u", "r", "n">>>>, <<"if", <<"i", "f">>>>,
   <<"else", <<"e", "l", "s", "e">>>>, <<"break", <<"b", "r", "e", "a", "k">>>>,
   <<"true", <<"t", "r", "u", "e">>>>, <<"false", <<"f", "a", "l", "s", "e">>>>,
   <<"this", <<"t", "h", "i", "s">>>>, <<"new", <<"n", "e", "w">>>>,
   <<"instanceof", <<"i", "n", "s", "t", "a", "n", "c", "e", "o", "f">>>>,
   <<"in", <<"i", "n">>>>, <<"delete", <<"d", "e", "l", "e", "t", "e">>>>,
   <<"typeof", <<"t", "y", "p", "e", "o", "f">>>>, <<"void", <<"v", "o", "i", "d">>>>,
   <<"null", <<"n", "u", "l", "l">>>>, <<"while", <<"w", "h", "i", "l", "e">>>>,
   <<"do", <<"d", "o">>>>, <<"for", <<"f", "o", "r">>>>, <<"try", <<"t", "r", "y">>>>,
   <<"throw", <<"t", "h", "r", "o", "w">>>>, <<"catch", <<"c", "a", "t", "c", "h">>>>,
   <<"default", <<"d", "e", "f", "a", "u", "l", "t">>>>,
   <<"finally", <<"f", "i", "n", "a", "l", "l", "y">>>>, <<"case", <<"c", "a", "s", "e">>>>,
   <<"with", <<"w", "i", "t", "h">>>>,
   <<"debugger", <<"d", "e", "b", "u", "g", "g", "e", "r">>>>,
   <<"switch", <<"s", "w", "i", "t", "c", "h">>>>, <<"100", <<"1", "0", "0">>>>}

RECURSIVE Slice(_, _, _)
\* value[:n], for the value that starts with atom i of s: its first n characters
Slice(s, i, n) ==
  IF i > Len(s) \/ n = 0 THEN ""
  ELSE IF Len(s[i]) <= n THEN s[i] \o Slice(s, i + 1, n - Len(s[i]))
  ELSE Join((CHOOSE e \in AtomChars : e[1] = s[i])[2], 1, n + 1)

RECURSIVE RunEnd(_, _, _)
\* the index after the longest run of atoms of class C that starts at i
RunEnd(s, i, C) == IF i <= Len(s) /\ s[i] \in C THEN RunEnd(s, i + 1, C) ELSE i

RECURSIVE RunEndNot(_, _, _)
RunEndNot(s, i, C) == IF i <= Len(s) /\ s[i] \notin C THEN RunEndNot(s, i + 1, C) ELSE i

\* the literal lit (a sequence of characters) stands at i
Lit(s, i, lit) ==
  /\ i + Len(lit) - 1 <= Len(s)
  /\ \A n \in 1..Len(lit) : s[i + n - 1] = lit[n]

\* Each m_ operator gives the index after the match of a rule at i, 0 for no match.

\* [\r\n]+\s*\+\+
m_INCR_NO_LT(s, i) ==
  LET j == RunEnd(s, i, LineTermChars)
      n == RunEnd(s, j, SpaceChars)
  IN IF j > i /\ Lit(s, n, <<"+", "+">>) THEN n + 2 ELSE 0

\* [\r\n]+\s*--
m_DECR_NO_LT(s, i) ==
  LET j == RunEnd(s, i, LineTermChars)
      n == RunEnd(s, j, SpaceChars)
  IN IF j > i /\ Lit(s, n, <<"-", "-">>) THEN n + 2 ELSE 0

\* the lookahead of t_LINE_TERMINATOR: \s*(?:\+\+) | (?:--)
LineTermLookahead(s, e) ==
  \/ Lit(s, RunEnd(s, e, SpaceChars), <<"+", "+">>)
  \/ Lit(s, e, <<"-", "-">>)

RECURSIVE LineTermEnd(_, _, _)
\* the longest run [\n\r]+ from i, ending at e or before, after which the lookahead fails
LineTermEnd(s, i, e) ==
  IF e <= i THEN 0
  ELSE IF ~LineTermLookahead(s, e) THEN e
  ELSE LineTermEnd(s, i, e - 1)

\* [\n\r]+(?!\s*(?:\+\+)|(?:--))
m_LINE_TERMINATOR(s, i) == LineTermEnd(s, i, RunEnd(s, i, LineTermChars))

\* [a-zA-Z_$][0-9a-zA-Z_$]*
m_ID(s, i) ==
  IF i <= Len(s) /\ s[i] \in IdStartAtoms THEN RunEnd(s, i + 1, IdAtoms) ELSE 0

\* the characters a backslash may escape in a string: [-a-zA-Z\\?'"]
EscapeAtoms == LetterAtoms \cup {"-", "\\", "?", "'", "\""}

RECURSIVE StringEnd(_, _, _)
\* inside a string opened by q: the index after the closing quote
StringEnd(s, i, q) ==
  IF i > Len(s) THEN 0
  ELSE IF s[i] = q THEN i + 1
  ELSE IF s[i] = "\\"
       THEN IF i + 1 <= Len(s) /\ s[i + 1] \in EscapeAtoms THEN StringEnd(s, i + 2, q) ELSE 0
  ELSE IF s[i] \in LineTermChars THEN 0
  ELSE StringEnd(s, i + 1, q)

m_STRING_LITERAL(s, i) ==
  IF i <= Len(s) /\ s[i] \in {"\"", "'"} THEN StringEnd(s, i + 1, s[i]) ELSE 0

\* the five alternatives of t_NUMBER_LITERAL, in order
m_NUMBER_LITERAL(s, i) ==
  LET d1 == RunEnd(s, i, DigitAtoms)
      hex == IF Lit(s, i, <<"0">>) /\ i + 1 <= Len(s) /\ s[i + 1] \in {"x", "X"}
                  /\ RunEnd(s, i + 2, HexAtoms) > i + 2
             THEN RunEnd(s, i + 2, HexAtoms) ELSE 0
      expint == IF d1 > i /\ Lit(s, d1, <<"e">>) /\ RunEnd(s, d1 + 1, DigitAtoms) > d1 + 1
                THEN RunEnd(s, d1 + 1, DigitAtoms) ELSE 0
      d2 == RunEnd(s, d1 + 1, DigitAtoms)
      e2 == IF Lit(s, d2, <<"e">>) THEN d2 + 1 ELSE d2
      frac == IF Lit(s, d1, <<".">>) /\ d2 > d1 + 1
              THEN (IF RunEnd(s, e2, DigitAtoms) > e2 THEN RunEnd(s, e2, DigitAtoms) ELSE d2)
              ELSE 0
      e3 == IF Lit(s, d1 + 1, <<"e">>) THEN d1 + 2 ELSE d1 + 1
      dotexp == IF d1 > i /\ Lit(s, d1, <<".">>) /\ RunEnd(s, e3, DigitAtoms) > e3
                THEN RunEnd(s, e3, DigitAtoms) ELSE 0
  IN IF hex > 0 THEN hex
     ELSE IF expint > 0 THEN expint
     ELSE IF frac > 0 THEN frac
     ELSE IF dotexp > 0 THEN dotexp
     ELSE IF d1 > i THEN d1 ELSE 0

RECURSIVE CommentEnd(_, _)
\* inside a block comment: the index after the first */
CommentEnd(s, i) ==
  IF i + 1 > Len(s) THEN 0
  ELSE IF s[i] = "*" /\ s[i + 1] = "/" THEN i + 2
  ELSE CommentEnd(s, i + 1)

\* /\*[^*]*\*+([^/*][^*]*\*+)*/
m_BLOCK_COMMENT(s, i) == IF Lit(s, i, <<"/", "*">>) THEN CommentEnd(s, i + 2) ELSE 0

\* //[^\r\n]*
m_LINE_COMMENT(s, i) ==
  IF Lit(s, i, <<"/", "/">>) THEN RunEndNot(s, i + 2, LineTermChars) ELSE 0

\* The rules given as one-line strings, in the order ply tries them: by the
\* length of the regular expression as written (\+\+ has length 4, -- has 2).
Punctuators ==
  << [type |-> "INCR", lit |-> <<"+", "+">>],
     [type |-> "LOR", lit |-> <<"|", "|">>],
     [type |-> "URSHIFT_EQUALS", lit |-> <<">", ">", ">", "=">>],
     [type |-> "EQT", lit |-> <<"=", "=", "=">>],
     [type |-> "LSHIFT_EQUALS", lit |-> <<"<", "<", "=">>],
     [type |-> "NET", lit |-> <<"!", "=", "=">>],
     [type |-> "OR_EQUALS", lit |-> <<"|", "=">>],
     [type |-> "PLUS_EQUALS", lit |-> <<"+", "=">>],
     [type |-> "RSHIFT_EQUALS", lit |-> <<">", ">", "=">>],
     [type |-> "TIMES_EQUALS", lit |-> <<"*", "=">>],
     [type |-> "URSHIFT", lit |-> <<">", ">", ">">>],
     [type |-> "XOR_EQUALS", lit |-> <<"^", "=">>],
     [type |-> "AND_EQUALS", lit |-> <<"&", "=">>],
     [type |-> "CONDOP", lit |-> <<"?">>],
     [type |-> "DECR", lit |-> <<"-", "-">>],
     [type |-> "DIVIDE_EQUALS", lit |-> <<"/", "=">>],
     [type |-> "EQ", lit |-> <<"=", "=">>],
     [type |-> "GE", lit |-> <<">", "=">>],
     [type |-> "LAND", lit |-> <<"&", "&">>],
     [type |-> "LBRACKET", lit |-> <<"[">>],
     [type |-> "LE", lit |-> <<"<", "=">>],
     [type |-> "LPAREN", lit |-> <<"(">>],
     [type |-> "LSHIFT", lit |-> <<"<", "<">>],
     [type |-> "MINUS_EQUALS", lit |-> <<"-", "=">>],
     [type |-> "MOD_EQUALS", lit |-> <<"%", "=">>],
     [type |-> "NE", lit |-> <<"!", "=">>],
     [type |-> "OR", lit |-> <<"|">>],
     [type |-> "PERIOD", lit |-> <<".">>],
     [type |-> "PLUS", lit |-> <<"+">>],
     [type |-> "RBRACKET", lit |-> <<"]">>],
     [type |-> "RPAREN", lit |-> <<")">>],
     [type |-> "RSHIFT", lit |-> <<">", ">">>],
     [type |-> "TIMES", lit |-> <<"*">>],
     [type |-> "XOR", lit |-> <<"^">>],
     [type |-> "AND", lit |-> <<"&">>],
     [type |-> "COLON", lit |-> <<":">>],
     [type |-> "COMMA", lit |-> <<",">>],
     [type |-> "DIVIDE", lit |-> <<"/">>],
     [type |-> "EQUALS", lit |-> <<"=">>],
     [type |-> "GT", lit |-> <<">">>],
     [type |-> "LBRACE", lit |-> <<"{">>],
     [type |-> "LNOT", lit |-> <<"!">>],
     [type |-> "LT", lit |-> <<"<">>],
     [type |-> "MINUS", lit |-> <<"-">>],
     [type |-> "MOD", lit |-> <<"%">>],
     [type |-> "NOT", lit |-> <<"~">>],
     [type |-> "RBRACE", lit |-> <<"}">>],
     [type |-> "SEMI", lit |-> <<";">>] >>

RECURSIVE PunctuatorAt(_, _, _)
\* the first punctuator rule, from rule n on, that matches at i (0: none)
PunctuatorAt(s, i, n) ==
  IF n > Len(Punctuators) THEN 0
  ELSE IF Lit(s, i, Punctuators[n].lit) THEN n
  ELSE PunctuatorAt(s, i, n + 1)

\* A token (ply.lex.LexToken); NoToken stands for Python's None.
LexToken(type, value, lineno, lexpos) ==
  [type |-> type, value |-> value, lineno |-> lineno, lexpos |-> lexpos]
NoToken == LexToken("None", "", 0, 0)

\* The scanner never changes its own line counter (t_LINE_TERMINATOR adds to
\* the token's copy), so every token is stamped with the initial lineno.
LexerLineno == 1

\* What a scan gives: a token and the next position, or the message of the
\* TypeError that t_error or t_regex_error raises.
Scanned(tok, pos) == [tok |-> tok, pos |-> pos, exc |-> ""]
ScanError(pos, msg) == [tok |-> NoToken, pos |-> pos, exc |-> msg]

\* t_error and t_regex_error, called with the rest of the text from atom i on as
\* t.value: TypeError("<msg> '%s', %d" % (t.value[:20], t.lineno))
t_error(s, i, msg) ==
  [k |-> "exc", s |-> "TypeError", msg |-> msg, slice |-> Slice(s, i, 20),
   lineno |-> LexerLineno]

\* the token of the first rule of state INITIAL that matches at i (i is not ignored)
MatchInitial(s, i) ==
  LET tk(type, e, line) == Scanned(LexToken(type, Join(s, i, e), line, CharLen(s, 1, i)), e)
      val == Join(s, i, m_ID(s, i))
      pn == PunctuatorAt(s, i, 1)
  IN IF m_INCR_NO_LT(s, i) > 0
       THEN Scanned(LexToken("INCR_NO_LT", "++", LexerLineno, CharLen(s, 1, i)), m_INCR_NO_LT(s, i))
     ELSE IF m_DECR_NO_LT(s, i) > 0
       THEN Scanned(LexToken("DECR_NO_LT", "--", LexerLineno, CharLen(s, 1, i)), m_DECR_NO_LT(s, i))
     ELSE IF m_LINE_TERMINATOR(s, i) > 0
       THEN tk("LINE_TERMINATOR", m_LINE_TERMINATOR(s, i),
               LexerLineno + CharLen(s, i, m_LINE_TERMINATOR(s, i)))
     ELSE IF m_ID(s, i) > 0
       THEN tk(IF val \in DOMAIN keywords_map THEN keywords_map[val] ELSE "ID",
               m_ID(s, i), LexerLineno)
     ELSE IF m_STRING_LITERAL(s, i) > 0
       THEN tk("STRING_LITERAL", m_STRING_LITERAL(s, i), LexerLineno)
     ELSE IF m_NUMBER_LITERAL(s, i) > 0
       THEN tk("NUMBER_LITERAL", m_NUMBER_LITERAL(s, i), LexerLineno)
     ELSE IF m_BLOCK_COMMENT(s, i) > 0
       THEN tk("BLOCK_COMMENT", m_BLOCK_COMMENT(s, i), LexerLineno)
     ELSE IF m_LINE_COMMENT(s, i) > 0
       THEN tk("LINE_COMMENT", m_LINE_COMMENT(s, i), LexerLineno)
     ELSE IF pn > 0
       THEN tk(Punctuators[pn].type, i + Len(Punctuators[pn].lit), LexerLineno)
     ELSE ScanError(i, "Unknown text")

\* regex_first_char / regex_char: the characters a regular expression body
\* may not hold unescaped (the first one may not be * either)
RegexStop == {"\n", "\r", "[", "\\", "/"}

RECURSIVE RegexBodyEnd(_, _, _)
\* regex_first_char regex_char*: plain characters, \. escapes and [...] classes;
\* the index where the body stops (i itself when not even a first character matches)
RegexBodyEnd(s, i, first) ==
  IF i > Len(s) THEN i
  ELSE IF s[i] = "\\"
       THEN IF i + 1 <= Len(s) /\ s[i + 1] # "\n" THEN RegexBodyEnd(s, i + 2, FALSE) ELSE i
  ELSE IF s[i] = "["
       THEN LET c == RunEndNot(s, i + 1, {"]"})
            IN IF c > i + 1 /\ c <= Len(s) THEN RegexBodyEnd(s, c + 1, FALSE) ELSE i
  ELSE IF s[i] \in RegexStop \/ (first /\ s[i] = "*") THEN i
  ELSE RegexBodyEnd(s, i + 1, FALSE)

\* t_regex_RE_BODY = regex_first_char + regex_char + '*'
m_RE_BODY(s, i) == IF RegexBodyEnd(s, i, TRUE) > i THEN RegexBodyEnd(s, i, TRUE) ELSE 0

\* t_regex_RE_END = r'/[aig]*'
m_RE_END(s, i) == IF Lit(s, i, <<"/">>) THEN RunEnd(s, i + 1, {"a", "i", "g"}) ELSE 0

\* the token of the first rule of state regex that matches at i (t_regex_ignore = '')
MatchRegex(s, i) ==
  IF m_RE_BODY(s, i) > 0
    THEN Scanned(LexToken("RE_BODY", Join(s, i, m_RE_BODY(s, i)), LexerLineno, CharLen(s, 1, i)),
                 m_RE_BODY(s, i))
  ELSE IF m_RE_END(s, i) > 0
    THEN Scanned(LexToken("RE_END", Join(s, i, m_RE_END(s, i)), LexerLineno, CharLen(s, 1, i)),
                 m_RE_END(s, i))
  ELSE ScanError(i, "Error parsing regular expression")

\* self.lexer.token(): skip the ignored characters, then the first matching
\* rule of the current state; None at the end of the text
LexerToken(s, i, state) ==
  LET j == IF state = "INITIAL" THEN RunEnd(s, i, IgnoreChars) ELSE i
  IN IF j > Len(s) THEN Scanned(NoToken, j)
     ELSE IF state = "INITIAL" THEN MatchInitial(s, j)
     ELSE MatchRegex(s, j)

(***************************************************************************)
(* pyjsparser/lexer.py: the token proxy of class Lexer.  The operators     *)
(* take the fields of the Lexer they read and give the fields they set.    *)
(***************************************************************************)
\* create_semicolon_token(self, token)
create_semicolon_token(token) ==
  IF token # NoToken THEN LexToken("SEMI", ";", token.lineno, token.lexpos)
  ELSE LexToken("SEMI", ";", 0, 0)

\* prev_line_terminator(self)
prev_line_terminator(prev) == prev # NoToken /\ prev.type = "LINE_TERMINATOR"

\* auto_semicolon for a Lexer that gives the SEMI and lets go of the token
AutoSemicolonDropping(token, prev, queue) ==
  IF token = NoToken \/ token.type = "RBRACE" \/ prev_line_terminator(prev)
  THEN [tok |-> create_semicolon_token(token), next_tokens |-> queue]
  ELSE [tok |-> NoToken, next_tokens |-> queue]

\* auto_semicolon for a Lexer that does not look at the token before
AutoSemicolonWithoutLineTerminator(token, prev, queue) ==
  IF token = NoToken \/ token.type = "RBRACE"
  THEN [tok |-> create_semicolon_token(token),
        next_tokens |-> IF token # NoToken THEN Append(queue, token) ELSE queue]
  ELSE [tok |-> NoToken, next_tokens |-> queue]

\* auto_semicolon(self, token): the token returned (None: NoToken) and next_tokens
auto_semicolon(token, prev, queue) ==
  IF token = NoToken \/ token.type = "RBRACE" \/ prev_line_terminator(prev)
  THEN [tok |-> create_semicolon_token(token),
        next_tokens |-> IF token # NoToken THEN Append(queue, token) ELSE queue]
  ELSE [tok |-> NoToken, next_tokens |-> queue]

\* the token types that Lexer.token does not pass on
SkippedTypes == {"LINE_TERMINATOR", "LINE_COMMENT", "BLOCK_COMMENT"}
\* the keywords that a line terminator ends
RestrictedTypes == {"CONTINUE", "BREAK", "RETURN", "THROW"}

\* the fields of the Lexer after a call of token, and what the call gave
Tokened(tok, pos, prev, curr, exc, queue) ==
  [tok |-> tok, pos |-> pos, prev |-> prev, curr |-> curr, exc |-> exc, next_tokens |-> queue]

\* the loop of a Lexer.token that passes every token of the scanner on
TokenLoopPassingAll(r, s, state, curr, queue) ==
  IF r.exc # "" THEN Tokened(NoToken, r.pos, curr, curr, r.exc, queue)
  ELSE Tokened(r.tok, r.pos, curr, r.tok, "", queue)

RECURSIVE TokenLoop(_, _, _, _, _)
\* the while True loop of Lexer.token, entered with curr_token = curr;
\* r is what self.lexer.token() gives in this turn
TokenLoop(r, s, state, curr, queue) ==
  IF r.exc # "" THEN Tokened(NoToken, r.pos, curr, curr, r.exc, queue)
  ELSE IF r.tok = NoToken \/ r.tok.type \notin SkippedTypes
    THEN Tokened(r.tok, r.pos, curr, r.tok, "", queue)
  ELSE IF curr # NoToken /\ curr.type \in RestrictedTypes
    THEN Tokened(create_semicolon_token(r.tok), r.pos, curr, r.tok, "", queue)
  ELSE TokenLoop(LexerToken(s, r.pos, state), s, state, r.tok, queue)

\* Lexer.token for a Lexer that hands out the last of next_tokens and keeps it
TokenKeepingRequeued(s, pos, state, queue, prev, curr) ==
  IF queue # <<>>
  THEN Tokened(queue[Len(queue)], pos, prev, curr, "", queue)
  ELSE TokenLoop(LexerToken(s, pos, state), s, state, curr, queue)

\* Lexer.token for a scanner that ends the input where no rule matches
TokenEndingAtError(s, pos, state, queue, prev, curr) ==
  LET r == IF queue # <<>>
           THEN Tokened(queue[Len(queue)], pos, prev, curr, "", SubSeq(queue, 1, Len(queue) - 1))
           ELSE TokenLoop(LexerToken(s, pos, state), s, state, curr, queue)
  IN [r EXCEPT !.exc = ""]

\* token(self): the token returned and the fields of the Lexer afterwards
token(s, pos, state, queue, prev, curr) ==
  IF queue # <<>>
  THEN Tokened(queue[Len(queue)], pos, prev, curr, "", SubSeq(queue, 1, Len(queue) - 1))
  ELSE TokenLoop(LexerToken(s, pos, state), s, state, curr, queue)


\* what a call of scan_regexp ends with: what it returns or raises (value), the
\* state of the scanner afterwards, the fields of the Lexer after the last call
\* of self.token() (lexer), and the tokens that these calls gave (read)
RegexpScanned(value, state, lexer, read) ==
  [value |-> value, state |-> state, lexer |-> lexer, read |-> read]

\* a token that scan_regexp read: off next_tokens, or from a scan
RegexpRead(t, queue) ==
  [tok |-> t.tok, by |-> IF queue # <<>> THEN "scan_regexp requeued" ELSE "scan_regexp"]

\* scan_regexp from the second token = self.token() on; t1 and t2 are what the
\* two calls of self.token() gave, read the tokens read.  begin('INITIAL') is
\* the last statement before the return: a raise before it leaves the scanner
\* in state regex.
scan_regexp_end(s, t1, t2, read) ==
  IF t2.exc # "" THEN RegexpScanned(t_error(s, t2.pos, t2.exc), "regex", t2, read)
  ELSE IF t2.tok = NoToken
    THEN RegexpScanned(Exc("AttributeError", "type"), "regex", t2,
                       Append(read, RegexpRead(t2, t1.next_tokens)))
  ELSE IF t2.tok.type # "RE_END"
    THEN RegexpScanned(Exc("SyntaxError", "Invalid Regular Expression"), "regex", t2,
                       Append(read, RegexpRead(t2, t1.next_tokens)))
  ELSE IF t1.tok.type # "RE_BODY"
    THEN RegexpScanned(Exc("UnboundLocalError", "pattern"), "INITIAL", t2,
                       Append(read, RegexpRead(t2, t1.next_tokens)))
  ELSE RegexpScanned(Tuple(<<Str(t1.tok.value), Str(Join(s, t1.pos + 1, t2.pos))>>),
                     "INITIAL", t2, Append(read, RegexpRead(t2, t1.next_tokens)))

\* scan_regexp after begin('regex') and the first token = self.token(), which
\* gave t1 with next_tokens = queue before it
scan_regexp_body(s, t1, queue) ==
  IF t1.exc # "" THEN RegexpScanned(t_error(s, t1.pos, t1.exc), "regex", t1, <<>>)
  ELSE IF t1.tok = NoToken
    THEN RegexpScanned(Exc("AttributeError", "type"), "regex", t1, <<RegexpRead(t1, queue)>>)
  ELSE scan_regexp_end(s, t1, token(s, t1.pos, "regex", t1.next_tokens, t1.prev, t1.curr),
                       <<RegexpRead(t1, queue)>>)

\* scan_regexp(self, start_value), called with the scanner at pos
scan_regexp(s, pos, queue, prev, curr) ==
  scan_regexp_body(s, token(s, pos, "regex", queue, prev, curr), queue)
(***************************************************************************)
(* pyjsparser/parser.py: the p_ functions.  The argument p is the list of  *)
(* the values of the right-hand side, so p[n] is the source's p[n] for     *)
(* n >= 1 and len(p) is the source's len(p); the operator gives the value  *)
(* left in p[0] (None when the function assigns nothing) or the exception  *)
(* the function raises.  A terminal's value is the text of its token.      *)
(***************************************************************************)
len(p) == Len(p) + 1

\* v == text, for a value v and a Python string literal
PyEqStr(v, text) == v.k = "str" /\ v.s = text

\* a build_list that puts the item in front of the items it has
BuildListPrepending(p, base, node) ==
  IF len(p) <= node THEN List(<<p[base]>>)
  ELSE List(<<p[node]>> \o p[base].items)

\* build_list(self, p, base, node): count is node, base is 1 in every call
build_list(p, base, node) ==
  IF len(p) <= node THEN List(<<p[base]>>)
  ELSE IF IsList(p[base]) THEN List(Append(p[base].items, p[node]))
  ELSE Exc("AttributeError", "append")

\* optrule of _create_opt_rule, and every function whose body is p[0] = p[1]
optrule(p) == p[1]

\* p_empty, p_auto_semicolon and the functions that only print: p[0] stays None
p_empty(p) == None

p_SingleLineComment(p) == LineComment(p[1])
p_MultiLineComment(p) == BlockComment(p[1])
p_Identifier(p) == Identifier(p[1])
p_BooleanLiteral(p) == Boolean(p[1])
p_NumericLiteral(p) == Number(p[1])
p_StringLiteral(p) == String(p[1])

p_PrimaryExpressionNoObj(p) == IF len(p) = 2 THEN p[1] ELSE p[2]

p_ObjectLiteral(p) == Object(IF len(p) > 3 THEN p[2] ELSE List(<<>>))

p_PropertyAssignment(p) == IF len(p) = 4 THEN Assign(p[1], p[2], p[3]) ELSE None

\* ast has no ElementGet: evaluating ast.ElementGet raises AttributeError
p_MemberExpression(p) ==
  IF len(p) = 2 THEN p[1]
  ELSE IF ~PyEqStr(p[1], "new") THEN Exc("AttributeError", "ElementGet")
  ELSE None

p_MemberExpressionNoBF(p) ==
  IF len(p) = 2 THEN p[1]
  ELSE IF ~PyEqStr(p[1], "new") THEN Exc("AttributeError", "ElementGet")
  ELSE New(p[2], p[3])

\* p_NewExpression and p_NewExpressionNoBF
p_NewExpression(p) == IF len(p) = 2 THEN p[1] ELSE New(p[2], None)

\* p_CallExpression and p_CallExpressionNoBF
p_CallExpression(p) == IF len(p) = 3 THEN FuncCall(p[1], p[2]) ELSE None

p_Arguments(p) == IF len(p) = 4 THEN p[2] ELSE None

\* the functions whose body is p[0] = self.build_list(p, 1, 3)
p_ArgumentList(p) == build_list(p, 1, 3)

\* the postfix operator is read from p[3], past the end of the three-entry p
p_PostfixExpression(p) ==
  IF len(p) = 2 THEN p[1]
  ELSE IF 3 < len(p) THEN UnaryOp(p[3], p[1], TRUE)
  ELSE Exc("IndexError", "list index out of range")

p_PostfixExpressionNoBF(p) ==
  IF len(p) = 2 THEN p[1]
  ELSE IF 3 < len(p) THEN UnaryOp(p[3], p[1], TRUE)
  ELSE Exc("IndexError", "list index out of range")

p_UnaryExpressionCommon(p) == UnaryOp(p[1], p[2], FALSE)

\* p_MultiplicativeExpression with left and right exchanged: what SlashAfterOperand
\* must tell from the source's operand order
MultiplicativeExpressionSwapped(p) ==
  IF len(p) = 2 THEN p[1] ELSE BinOp(p[2], p[3], p[1])

\* p_MultiplicativeExpression, p_MultiplicativeExpressionNoBF
p_MultiplicativeExpression(p) ==
  IF len(p) = 2 THEN p[1] ELSE BinOp(p[2], p[1], p[3])

\* p_AdditiveExpression(NoBF), p_RelationalExpression: the same body
p_AdditiveExpression(p) ==
  IF len(p) = 2 THEN p[1] ELSE BinOp(p[2], p[1], p[3])

\* p_ShiftExpression(NoBF), p_RelationalExpressionNoIn/NoBF, p_EqualityExpression
\* (NoIn, NoBF), p_Expression(NoIn, NoBF): only the one-symbol form sets p[0]
p_ShiftExpression(p) == IF len(p) = 2 THEN p[1] ELSE None

\* p_BitwiseANDExpression .. p_LogicalORExpressionNoBF
p_BitwiseANDExpression(p) ==
  IF len(p) = 4 THEN BinOp(p[2], p[1], p[3]) ELSE p[1]

\* p_ConditionalExpression, NoIn, NoBF
p_ConditionalExpression(p) ==
  IF len(p) = 2 THEN p[1] ELSE If(p[1], List(<<p[3]>>), List(<<p[5]>>))

\* p_AssignmentExpression, NoIn, NoBF
p_AssignmentExpression(p) ==
  IF len(p) = 2 THEN p[1] ELSE Assign(p[1], p[2], p[3])

p_Block(p) == p[2]

\* the functions whose body is p[0] = self.build_list(p, 1, 2)
p_StatementList(p) == build_list(p, 1, 2)

\* for node, expression in v: v must be a list of pairs
IsPairList(v) ==
  /\ IsList(v)
  /\ \A n \in 1..Len(v.items) : v.items[n].k = "tuple" /\ Len(v.items[n].items) = 2

Declarations(v) ==
  List([n \in 1..Len(v.items) |->
          VariableDeclaration(v.items[n].items[1], v.items[n].items[2])])

p_VariableStatement(p) ==
  IF IsPairList(p[2]) THEN Declarations(p[2]) ELSE Exc("TypeError", "not iterable")

\* p_VariableDeclaration, p_VariableDeclarationNoIn
p_VariableDeclaration(p) == Tuple(<<p[1], p[2]>>)

\* p_Initialiser, p_InitialiserNoIn
p_Initialiser(p) == p[2]

p_ExpressionStatement(p) == p[1]

\* p_IfStatement with the else branch handed to no if: what ElseBindsNearestIf
\* must tell from the source's false=p[7]
IfStatementWithoutElse(p) == If(p[3], p[5], None)

p_IfStatement(p) == If(p[3], p[5], IF len(p) > 6 THEN p[7] ELSE None)

p_IterationStatement_1(p) == DoWhile(p[5], p[2])
p_IterationStatement_2(p) == While(p[3], p[5])

p_IterationStatement_3(p) ==
  IF len(p) = 10 THEN For(p[3], p[5], p[7], p[9])
  ELSE IF IsPairList(p[4]) THEN For(Declarations(p[4]), p[6], p[8], p[10])
  ELSE Exc("TypeError", "not iterable")

\* len(p) is 8 or 9, never 7: both forms take the else branch, and the first
\* form has no p[8]
p_IterationStatement_4(p) ==
  IF len(p) = 7 THEN ForIn(p[3], p[5], p[7])
  ELSE IF 8 < len(p) THEN ForIn(VariableDeclaration(p[4], None), p[6], p[8])
  ELSE Exc("IndexError", "list index out of range")

p_ContinueStatement(p) == Continue(p[2])
p_BreakStatement(p) == Break(p[2])
p_ReturnStatement(p) == Return(p[2])
p_WithStatement(p) == With(p[3], p[5])

RECURSIVE SwitchCases(_, _)
\* cases.extend(item) for the items of v, from item n on, that are lists
SwitchCases(v, n) ==
  IF n > Len(v) THEN <<>>
  ELSE (IF IsList(v[n]) THEN v[n].items ELSE <<>>) \o SwitchCases(v, n + 1)

RECURSIVE SwitchDefault(_, _)
\* default = item for the items of v, from item n down, that are not lists
SwitchDefault(v, n) ==
  IF n = 0 THEN None
  ELSE IF ~IsList(v[n]) THEN v[n]
  ELSE SwitchDefault(v, n - 1)

p_SwitchStatement(p) ==
  IF IsList(p[5])
  THEN Switch(p[3], List(SwitchCases(p[5].items, 1)),
              SwitchDefault(p[5].items, Len(p[5].items)))
  ELSE Exc("TypeError", "not iterable")

\* p[2:-1]
p_CaseBlock(p) == List(SubSeq(p, 2, Len(p) - 1))

p_CaseClause(p) == Case(p[2], p[4])

\* DefaultCase.__init__ has no parameter identifier
p_DefaultClause(p) == Exc("TypeError", "unexpected keyword argument")

p_LabelledStatement(p) == LabelledStatement(p[1], p[2])
p_ThrowStatement(p) == Throw(p[2])
p_TryStatement_1(p) == Try(p[2], p[3], None)
p_TryStatement_2(p) == IF len(p) = 4 THEN Try(p[2], None, p[3]) ELSE Try(p[2], p[3], p[4])
p_Catch(p) == Catch(p[3], p[5])
p_Finally(p) == Finally(p[2])

p_FunctionDeclaration(p) == FuncDecl(p[1], p[4], p[7])

\* len(p) is 9; FuncDecl.__init__ has no parameter name
p_FunctionExpression(p) == Exc("TypeError", "unexpected keyword argument")

p_Program(p) == Program(p[1])

\* The function that ply.yacc bound to a production, applied to p.
SemanticAction(func, p) ==
  CASE func \in {"p_empty", "p_auto_semicolon", "p_NullLiteral", "p_RegularExpressionLiteral",
                 "p_ArrayLiteral", "p_ElementList", "p_Elision", "p_EmptyStatement",
                 "p_DebuggerStatement"} -> p_empty(p)
    [] func \in {"p_CaseClauses_opt", "p_Elision_opt", "p_ExpressionNoIn_opt", "p_Expression_opt",
                 "p_FormalParameterList_opt", "p_Identifier_opt", "p_InitialiserNoIn_opt",
                 "p_Initialiser_opt", "p_SourceElements_opt", "p_StatementList_opt",
                 "p_Comment", "p_IdentifierName", "p_Literal", "p_PrimaryExpression",
                 "p_PropertyName", "p_PropertySetParameterList", "p_LeftHandSideExpression",
                 "p_LeftHandSideExpressionNoBF", "p_UnaryExpression", "p_UnaryExpressionNoBF",
                 "p_AssignmentOperator", "p_Statement", "p_FunctionBody", "p_SourceElement"}
         -> optrule(p)
    [] func = "p_SingleLineComment" -> p_SingleLineComment(p)
    [] func = "p_MultiLineComment" -> p_MultiLineComment(p)
    [] func = "p_Identifier" -> p_Identifier(p)
    [] func = "p_BooleanLiteral" -> p_BooleanLiteral(p)
    [] func = "p_NumericLiteral" -> p_NumericLiteral(p)
    [] func = "p_StringLiteral" -> p_StringLiteral(p)
    [] func = "p_PrimaryExpressionNoObj" -> p_PrimaryExpressionNoObj(p)
    [] func = "p_ObjectLiteral" -> p_ObjectLiteral(p)
    [] func \in {"p_PropertyNameAndValueList", "p_ArgumentList", "p_VariableDeclarationList",
                 "p_VariableDeclarationListNoIn", "p_FormalParameterList"} -> p_ArgumentList(p)
    [] func = "p_PropertyAssignment" -> p_PropertyAssignment(p)
    [] func = "p_MemberExpression" -> p_MemberExpression(p)
    [] func = "p_MemberExpressionNoBF" -> p_MemberExpressionNoBF(p)
    [] func \in {"p_NewExpression", "p_NewExpressionNoBF"} -> p_NewExpression(p)
    [] func \in {"p_CallExpression", "p_CallExpressionNoBF"} -> p_CallExpression(p)
    [] func = "p_Arguments" -> p_Arguments(p)
    [] func = "p_PostfixExpression" -> p_PostfixExpression(p)
    [] func = "p_PostfixExpressionNoBF" -> p_PostfixExpressionNoBF(p)
    [] func = "p_UnaryExpressionCommon" -> p_UnaryExpressionCommon(p)
    [] func \in {"p_MultiplicativeExpression", "p_MultiplicativeExpressionNoBF"}
         -> p_MultiplicativeExpression(p)
    [] func \in {"p_AdditiveExpression", "p_AdditiveExpressionNoBF", "p_RelationalExpression"}
         -> p_AdditiveExpression(p)
    [] func \in {"p_ShiftExpression", "p_ShiftExpressionNoBF", "p_RelationalExpressionNoIn",
                 "p_RelationalExpressionNoBF", "p_EqualityExpression", "p_EqualityExpressionNoIn",
                 "p_EqualityExpressionNoBF", "p_Expression", "p_ExpressionNoIn",
                 "p_ExpressionNoBF"} -> p_ShiftExpression(p)
    [] func \in {"p_BitwiseANDExpression", "p_BitwiseANDExpressionNoIn",
                 "p_BitwiseANDExpressionNoBF", "p_BitwiseXORExpression",
                 "p_BitwiseXORExpressionNoIn", "p_BitwiseXORExpressionNoBF",
                 "p_BitwiseORExpression", "p_BitwiseORExpressionNoIn",
                 "p_BitwiseORExpressionNoBF", "p_LogicalANDExpression",
                 "p_LogicalANDExpressionNoIn", "p_LogicalANDExpressionNoBF",
                 "p_LogicalORExpression", "p_LogicalORExpressionNoIn",
                 "p_LogicalORExpressionNoBF"} -> p_BitwiseANDExpression(p)
    [] func \in {"p_ConditionalExpression", "p_ConditionalExpressionNoIn",
                 "p_ConditionalExpressionNoBF"} -> p_ConditionalExpression(p)
    [] func \in {"p_AssignmentExpression", "p_AssignmentExpressionNoIn",
                 "p_AssignmentExpressionNoBF"} -> p_AssignmentExpression(p)
    [] func = "p_Block" -> p_Block(p)
    [] func \in {"p_StatementList", "p_CaseClauses", "p_SourceElements"} -> p_StatementList(p)
    [] func = "p_VariableStatement" -> p_VariableStatement(p)
    [] func \in {"p_VariableDeclaration", "p_VariableDeclarationNoIn"} -> p_VariableDeclaration(p)
    [] func \in {"p_Initialiser", "p_InitialiserNoIn"} -> p_Initialiser(p)
    [] func = "p_ExpressionStatement" -> p_ExpressionStatement(p)
    [] func = "p_IfStatement" -> p_IfStatement(p)
    [] func = "p_IterationStatement_1" -> p_IterationStatement_1(p)
    [] func = "p_IterationStatement_2" -> p_IterationStatement_2(p)
    [] func = "p_IterationStatement_3" -> p_IterationStatement_3(p)
    [] func = "p_IterationStatement_4" -> p_IterationStatement_4(p)
    [] func = "p_ContinueStatement" -> p_ContinueStatement(p)
    [] func = "p_BreakStatement" -> p_BreakStatement(p)
    [] func = "p_ReturnStatement" -> p_ReturnStatement(p)
    [] func = "p_WithStatement" -> p_WithStatement(p)
    [] func = "p_SwitchStatement" -> p_SwitchStatement(p)
    [] func = "p_CaseBlock" -> p_CaseBlock(p)
    [] func = "p_CaseClause" -> p_CaseClause(p)
    [] func = "p_DefaultClause" -> p_DefaultClause(p)
    [] func = "p_LabelledStatement" -> p_LabelledStatement(p)
    [] func = "p_ThrowStatement" -> p_ThrowStatement(p)
    [] func = "p_TryStatement_1" -> p_TryStatement_1(p)
    [] func = "p_TryStatement_2" -> p_TryStatement_2(p)
    [] func = "p_Catch" -> p_Catch(p)
    [] func = "p_Finally" -> p_Finally(p)
    [] func = "p_FunctionDeclaration" -> p_FunctionDeclaration(p)
    [] func = "p_FunctionExpression" -> p_FunctionExpression(p)
    [] func = "p_Program" -> p_Program(p)

(***************************************************************************)
(* The grammar and its automaton, as ply.yacc.yacc(module=self,            *)
(* start='Program') builds them.  Productions lists the rules of the       *)
(* docstrings in the order ply numbers them (the _opt rules first: their   *)
(* functions are all defined on the line of optrule), with the function    *)
(* that carries each; the last one is the augmented rule S' -> Program,    *)
(* whose reduction is the accept.  The rest is the LALR(1) table of this   *)
(* grammar with the precedence declaration applied: the one conflict,      *)
(* ELSE after IF ( Expression ) Statement, is a shift.  No state reduces   *)
(* by two productions, and many states share their entries, so the table   *)
(* is kept as: States[s + 1] = <<n, k, j>>, state s reduces by production  *)
(* n on the terminals of LookaheadSets[k] and shifts as ShiftMaps[j] says  *)
(* (a pair <<terminal, next state>> each; 0 means none); the goto of a     *)
(* nonterminal is GotoDefault, but for the <<state, nonterminal, next      *)
(* state>> of GotoExcept.                                                  *)
(***************************************************************************)
Terminals ==
  <<"AND", "AND_EQUALS", "BLOCK_COMMENT", "BREAK", "CASE", "CATCH", "COLON", "COMMA", "COMMENT",
     "CONDOP", "CONTINUE", "DEBUGGER", "DECR", "DECR_NO_LT", "DEFAULT", "DELETE", "DIVIDE",
     "DIVIDE_EQUALS", "DO", "ELSE", "EQ", "EQT", "EQUALS", "FALSE", "FINALLY", "FOR", "FUNCTION",
     "GE", "GET", "GT", "ID", "IF", "IN", "INCR", "INCR_NO_LT", "INSTANCEOF", "LAND", "LBRACE",
     "LBRACKET", "LE", "LNOT", "LOR", "LPAREN", "LSHIFT", "LSHIFT_EQUALS", "LT", "MINUS",
     "MINUS_EQUALS", "MOD", "MOD_EQUALS", "NE", "NET", "NEW", "NOT", "NULL", "NUMBER_LITERAL", "OR",
     "OR_EQUALS", "PERIOD", "PLUS", "PLUS_EQUALS", "RBRACE", "RBRACKET", "REGEX", "RETURN",
     "RPAREN", "RSHIFT", "RSHIFT_EQUALS", "SEMI", "SET", "STRING_LITERAL", "SWITCH", "THIS",
     "THROW", "TIMES", "TIMES_EQUALS", "TRUE", "TRY", "TYPEOF", "URSHIFT", "URSHIFT_EQUALS", "VAR",
     "VOID", "WHILE", "WITH", "XOR", "XOR_EQUALS", "error", "$end">>

Productions ==
  <<
  [name |-> "CaseClauses_opt", syms |-> <<"empty">>, func |-> "p_CaseClauses_opt"],
  [name |-> "CaseClauses_opt", syms |-> <<"CaseClauses">>, func |-> "p_CaseClauses_opt"],
  [name |-> "Elision_opt", syms |-> <<"empty">>, func |-> "p_Elision_opt"],
  [name |-> "Elision_opt", syms |-> <<"Elision">>, func |-> "p_Elision_opt"],
  [name |-> "ExpressionNoIn_opt", syms |-> <<"empty">>, func |-> "p_ExpressionNoIn_opt"],
  [name |-> "ExpressionNoIn_opt", syms |-> <<"ExpressionNoIn">>, func |-> "p_ExpressionNoIn_opt"],
  [name |-> "Expression_opt", syms |-> <<"empty">>, func |-> "p_Expression_opt"],
  [name |-> "Expression_opt", syms |-> <<"Expression">>, func |-> "p_Expression_opt"],
  [name |-> "FormalParameterList_opt", syms |-> <<"empty">>, func |-> "p_FormalParameterList_opt"],
  [name |-> "FormalParameterList_opt", syms |-> <<"FormalParameterList">>, func |-> "p_FormalParameterList_opt"],
  [name |-> "Identifier_opt", syms |-> <<"empty">>, func |-> "p_Identifier_opt"],
  [name |-> "Identifier_opt", syms |-> <<"Identifier">>, func |-> "p_Identifier_opt"],
  [name |-> "InitialiserNoIn_opt", syms |-> <<"empty">>, func |-> "p_InitialiserNoIn_opt"],
  [name |-> "InitialiserNoIn_opt", syms |-> <<"InitialiserNoIn">>, func |-> "p_InitialiserNoIn_opt"],
  [name |-> "Initialiser_opt", syms |-> <<"empty">>, func |-> "p_Initialiser_opt"],
  [name |-> "Initialiser_opt", syms |-> <<"Initialiser">>, func |-> "p_Initialiser_opt"],
  [name |-> "SourceElements_opt", syms |-> <<"empty">>, func |-> "p_SourceElements_opt"],
  [name |-> "SourceElements_opt", syms |-> <<"SourceElements">>, func |-> "p_SourceElements_opt"],
  [name |-> "StatementList_opt", syms |-> <<"empty">>, func |-> "p_StatementList_opt"],
  [name |-> "StatementList_opt", syms |-> <<"StatementList">>, func |-> "p_StatementList_opt"],
  [name |-> "empty", syms |-> <<>>, func |-> "p_empty"],
  [name |-> "auto_semicolon", syms |-> <<"error">>, func |-> "p_auto_semicolon"],
  [name |-> "Comment", syms |-> <<"SingleLineComment">>, func |-> "p_Comment"],
  [name |-> "Comment", syms |-> <<"MultiLineComment">>, func |-> "p_Comment"],
  [name |-> "SingleLineComment", syms |-> <<"COMMENT">>, func |-> "p_SingleLineComment"],
  [name |-> "MultiLineComment", syms |-> <<"BLOCK_COMMENT">>, func |-> "p_MultiLineComment"],
  [name |-> "IdentifierName", syms |-> <<"Identifier">>, func |-> "p_IdentifierName"],
  [name |-> "Identifier", syms |-> <<"ID">>, func |-> "p_Identifier"],
  [name |-> "Literal", syms |-> <<"NullLiteral">>, func |-> "p_Literal"],
  [name |-> "Literal", syms |-> <<"BooleanLiteral">>, func |-> "p_Literal"],
  [name |-> "Literal", syms |-> <<"NumericLiteral">>, func |-> "p_Literal"],
  [name |-> "Literal", syms |-> <<"StringLiteral">>, func |-> "p_Literal"],
  [name |-> "Literal", syms |-> <<"RegularExpressionLiteral">>, func |-> "p_Literal"],
  [name |-> "NullLiteral", syms |-> <<"NULL">>, func |-> "p_NullLiteral"],
  [name |-> "BooleanLiteral", syms |-> <<"TRUE">>, func |-> "p_BooleanLiteral"],
  [name |-> "BooleanLiteral", syms |-> <<"FALSE">>, func |-> "p_BooleanLiteral"],
  [name |-> "NumericLiteral", syms |-> <<"NUMBER_LITERAL">>, func |-> "p_NumericLiteral"],
  [name |-> "StringLiteral", syms |-> <<"STRING_LITERAL">>, func |-> "p_StringLiteral"],
  [name |-> "RegularExpressionLiteral", syms |-> <<"REGEX">>, func |-> "p_RegularExpressionLiteral"],
  [name |-> "PrimaryExpression", syms |-> <<"PrimaryExpressionNoObj">>, func |-> "p_PrimaryExpression"],
  [name |-> "PrimaryExpression", syms |-> <<"ObjectLiteral">>, func |-> "p_PrimaryExpression"],
  [name |-> "PrimaryExpressionNoObj", syms |-> <<"THIS">>, func |-> "p_PrimaryExpressionNoObj"],
  [name |-> "PrimaryExpressionNoObj", syms |-> <<"Identifier">>, func |-> "p_PrimaryExpressionNoObj"],
  [name |-> "PrimaryExpressionNoObj", syms |-> <<"Literal">>, func |-> "p_PrimaryExpressionNoObj"],
  [name |-> "PrimaryExpressionNoObj", syms |-> <<"ArrayLiteral">>, func |-> "p_PrimaryExpressionNoObj"],
  [name |-> "PrimaryExpressionNoObj", syms |-> <<"LPAREN", "Expression", "RPAREN">>, func |-> "p_PrimaryExpressionNoObj"],
  [name |-> "ArrayLiteral", syms |-> <<"LBRACKET", "Elision_opt", "RBRACKET">>, func |-> "p_ArrayLiteral"],
  [name |-> "ArrayLiteral", syms |-> <<"LBRACKET", "ElementList", "RBRACKET">>, func |-> "p_ArrayLiteral"],
  [name |-> "ArrayLiteral", syms |-> <<"LBRACKET", "ElementList", "COMMA", "Elision_opt", "RBRACKET">>, func |-> "p_ArrayLiteral"],
  [name |-> "ElementList", syms |-> <<"Elision_opt", "AssignmentExpression">>, func |-> "p_ElementList"],
  [name |-> "ElementList", syms |-> <<"ElementList", "COMMA", "Elision_opt", "AssignmentExpression">>, func |-> "p_ElementList"],
  [name |-> "Elision", syms |-> <<"COMMA">>, func |-> "p_Elision"],
  [name |-> "Elision", syms |-> <<"Elision", "COMMA">>, func |-> "p_Elision"],
  [name |-> "ObjectLiteral", syms |-> <<"LBRACE", "RBRACE">>, func |-> "p_ObjectLiteral"],
  [name |-> "ObjectLiteral", syms |-> <<"LBRACE", "PropertyNameAndValueList", "RBRACE">>, func |-> "p_ObjectLiteral"],
  [name |-> "ObjectLiteral", syms |-> <<"LBRACE", "PropertyNameAndValueList", "COMMA", "RBRACE">>, func |-> "p_ObjectLiteral"],
  [name |-> "PropertyNameAndValueList", syms |-> <<"PropertyAssignment">>, func |-> "p_PropertyNameAndValueList"],
  [name |-> "PropertyNameAndValueList", syms |-> <<"PropertyNameAndValueList", "COMMA", "PropertyAssignment">>, func |-> "p_PropertyNameAndValueList"],
  [name |-> "PropertyAssignment", syms |-> <<"PropertyName", "COLON", "AssignmentExpression">>, func |-> "p_PropertyAssignment"],
  [name |-> "PropertyAssignment", syms |-> <<"GET", "PropertyName", "LPAREN", "RPAREN", "LBRACE", "FunctionBody", "RBRACE">>, func |-> "p_PropertyAssignment"],
  [name |-> "PropertyAssignment", syms |-> <<"SET", "PropertyName", "LPAREN", "PropertySetParameterList", "RPAREN", "LBRACE", "FunctionBody", "RBRACE">>, func |-> "p_PropertyAssignment"],
  [name |-> "PropertyName", syms |-> <<"IdentifierName">>, func |-> "p_PropertyName"],
  [name |-> "PropertyName", syms |-> <<"StringLiteral">>, func |-> "p_PropertyName"],
  [name |-> "PropertyName", syms |-> <<"NumericLiteral">>, func |-> "p_PropertyName"],
  [name |-> "PropertySetParameterList", syms |-> <<"Identifier">>, func |-> "p_PropertySetParameterList"],
  [name |-> "MemberExpression", syms |-> <<"PrimaryExpression">>, func |-> "p_MemberExpression"],
  [name |-> "MemberExpression", syms |-> <<"FunctionExpression">>, func |-> "p_MemberExpression"],
  [name |-> "MemberExpression", syms |-> <<"MemberExpression", "LBRACKET", "Expression", "RBRACKET">>, func |-> "p_MemberExpression"],
  [name |-> "MemberExpression", syms |-> <<"MemberExpression", "PERIOD", "IdentifierName">>, func |-> "p_MemberExpression"],
  [name |-> "MemberExpression", syms |-> <<"NEW", "MemberExpression", "Arguments">>, func |-> "p_MemberExpression"],
  [name |-> "MemberExpressionNoBF", syms |-> <<"PrimaryExpressionNoObj">>, func |-> "p_MemberExpressionNoBF"],
  [name |-> "MemberExpressionNoBF", syms |-> <<"MemberExpressionNoBF", "LBRACKET", "Expression", "RBRACKET">>, func |-> "p_MemberExpressionNoBF"],
  [name |-> "MemberExpressionNoBF", syms |-> <<"MemberExpressionNoBF", "PERIOD", "IdentifierName">>, func |-> "p_MemberExpressionNoBF"],
  [name |-> "MemberExpressionNoBF", syms |-> <<"NEW", "MemberExpression", "Arguments">>, func |-> "p_MemberExpressionNoBF"],
  [name |-> "NewExpression", syms |-> <<"MemberExpression">>, func |-> "p_NewExpression"],
  [name |-> "NewExpression", syms |-> <<"NEW", "NewExpression">>, func |-> "p_NewExpression"],
  [name |-> "NewExpressionNoBF", syms |-> <<"MemberExpressionNoBF">>, func |-> "p_NewExpressionNoBF"],
  [name |-> "NewExpressionNoBF", syms |-> <<"NEW", "NewExpression">>, func |-> "p_NewExpressionNoBF"],
  [name |-> "CallExpression", syms |-> <<"MemberExpression", "Arguments">>, func |-> "p_CallExpression"],
  [name |-> "CallExpression", syms |-> <<"CallExpression", "Arguments">>, func |-> "p_CallExpression"],
  [name |-> "CallExpression", syms |-> <<"CallExpression", "LBRACKET", "Expression", "RBRACKET">>, func |-> "p_CallExpression"],
  [name |-> "CallExpression", syms |-> <<"CallExpression", "PERIOD", "IdentifierName">>, func |-> "p_CallExpression"],
  [name |-> "CallExpressionNoBF", syms |-> <<"MemberExpressionNoBF", "Arguments">>, func |-> "p_CallExpressionNoBF"],
  [name |-> "CallExpressionNoBF", syms |-> <<"CallExpressionNoBF", "Arguments">>, func |-> "p_CallExpressionNoBF"],
  [name |-> "CallExpressionNoBF", syms |-> <<"CallExpressionNoBF", "LBRACKET", "Expression", "RBRACKET">>, func |-> "p_CallExpressionNoBF"],
  [name |-> "CallExpressionNoBF", syms |-> <<"CallExpressionNoBF", "PERIOD", "IdentifierName">>, func |-> "p_CallExpressionNoBF"],
  [name |-> "Arguments", syms |-> <<"LPAREN", "RPAREN">>, func |-> "p_Arguments"],
  [name |-> "Arguments", syms |-> <<"LPAREN", "ArgumentList", "RPAREN">>, func |-> "p_Arguments"],
  [name |-> "ArgumentList", syms |-> <<"AssignmentExpression">>, func |-> "p_ArgumentList"],
  [name |-> "ArgumentList", syms |-> <<"ArgumentList", "COMMA", "AssignmentExpression">>, func |-> "p_ArgumentList"],
  [name |-> "LeftHandSideExpression", syms |-> <<"NewExpression">>, func |-> "p_LeftHandSideExpression"],
  [name |-> "LeftHandSideExpression", syms |-> <<"CallExpression">>, func |-> "p_LeftHandSideExpression"],
  [name |-> "LeftHandSideExpressionNoBF", syms |-> <<"NewExpressionNoBF">>, func |-> "p_LeftHandSideExpressionNoBF"],
  [name |-> "LeftHandSideExpressionNoBF", syms |-> <<"CallExpressionNoBF">>, func |-> "p_LeftHandSideExpressionNoBF"],
  [name |-> "PostfixExpression", syms |-> <<"LeftHandSideExpression">>, func |-> "p_PostfixExpression"],
  [name |-> "PostfixExpression", syms |-> <<"LeftHandSideExpression", "INCR_NO_LT">>, func |-> "p_PostfixExpression"],
  [name |-> "PostfixExpression", syms |-> <<"LeftHandSideExpression", "DECR_NO_LT">>, func |-> "p_PostfixExpression"],
  [name |-> "PostfixExpressionNoBF", syms |-> <<"LeftHandSideExpressionNoBF">>, func |-> "p_PostfixExpressionNoBF"],
  [name |-> "PostfixExpressionNoBF", syms |-> <<"LeftHandSideExpressionNoBF", "INCR_NO_LT">>, func |-> "p_PostfixExpressionNoBF"],
  [name |-> "PostfixExpressionNoBF", syms |-> <<"LeftHandSideExpressionNoBF", "DECR_NO_LT">>, func |-> "p_PostfixExpressionNoBF"],
  [name |-> "UnaryExpressionCommon", syms |-> <<"DELETE", "UnaryExpression">>, func |-> "p_UnaryExpressionCommon"],
  [name |-> "UnaryExpressionCommon", syms |-> <<"VOID", "UnaryExpression">>, func |-> "p_UnaryExpressionCommon"],
  [name |-> "UnaryExpressionCommon", syms |-> <<"TYPEOF", "UnaryExpression">>, func |-> "p_UnaryExpressionCommon"],
  [name |-> "UnaryExpressionCommon", syms |-> <<"INCR", "UnaryExpression">>, func |-> "p_UnaryExpressionCommon"],
  [name |-> "UnaryExpressionCommon", syms |-> <<"INCR_NO_LT", "UnaryExpression">>, func |-> "p_UnaryExpressionCommon"],
  [name |-> "UnaryExpressionCommon", syms |-> <<"DECR", "UnaryExpression">>, func |-> "p_UnaryExpressionCommon"],
  [name |-> "UnaryExpressionCommon", syms |-> <<"DECR_NO_LT", "UnaryExpression">>, func |-> "p_UnaryExpressionCommon"],
  [name |-> "UnaryExpressionCommon", syms |-> <<"PLUS", "UnaryExpression">>, func |-> "p_UnaryExpressionCommon"],
  [name |-> "UnaryExpressionCommon", syms |-> <<"MINUS", "UnaryExpression">>, func |-> "p_UnaryExpressionCommon"],
  [name |-> "UnaryExpressionCommon", syms |-> <<"NOT", "UnaryExpression">>, func |-> "p_UnaryExpressionCommon"],
  [name |-> "UnaryExpressionCommon", syms |-> <<"LNOT", "UnaryExpression">>, func |-> "p_UnaryExpressionCommon"],
  [name |-> "UnaryExpression", syms |-> <<"PostfixExpression">>, func |-> "p_UnaryExpression"],
  [name |-> "UnaryExpression", syms |-> <<"UnaryExpressionCommon">>, func |-> "p_UnaryExpression"],
  [name |-> "UnaryExpressionNoBF", syms |-> <<"PostfixExpressionNoBF">>, func |-> "p_UnaryExpressionNoBF"],
  [name |-> "UnaryExpressionNoBF", syms |-> <<"UnaryExpressionCommon">>, func |-> "p_UnaryExpressionNoBF"],
  [name |-> "MultiplicativeExpression", syms |-> <<"UnaryExpression">>, func |-> "p_MultiplicativeExpression"],
  [name |-> "MultiplicativeExpression", syms |-> <<"MultiplicativeExpression", "TIMES", "UnaryExpression">>, func |-> "p_MultiplicativeExpression"],
  [name |-> "MultiplicativeExpression", syms |-> <<"MultiplicativeExpression", "DIVIDE", "UnaryExpression">>, func |-> "p_MultiplicativeExpression"],
  [name |-> "MultiplicativeExpression", syms |-> <<"MultiplicativeExpression", "MOD", "UnaryExpression">>, func |-> "p_MultiplicativeExpression"],
  [name |-> "MultiplicativeExpressionNoBF", syms |-> <<"UnaryExpressionNoBF">>, func |-> "p_MultiplicativeExpressionNoBF"],
  [name |-> "MultiplicativeExpressionNoBF", syms |-> <<"MultiplicativeExpressionNoBF", "TIMES", "UnaryExpression">>, func |-> "p_MultiplicativeExpressionNoBF"],
  [name |-> "MultiplicativeExpressionNoBF", syms |-> <<"MultiplicativeExpressionNoBF", "DIVIDE", "UnaryExpression">>, func |-> "p_MultiplicativeExpressionNoBF"],
  [name |-> "MultiplicativeExpressionNoBF", syms |-> <<"MultiplicativeExpressionNoBF", "MOD", "UnaryExpression">>, func |-> "p_MultiplicativeExpressionNoBF"],
  [name |-> "AdditiveExpression", syms |-> <<"MultiplicativeExpression">>, func |-> "p_AdditiveExpression"],
  [name |-> "AdditiveExpression", syms |-> <<"AdditiveExpression", "PLUS", "MultiplicativeExpression">>, func |-> "p_AdditiveExpression"],
  [name |-> "AdditiveExpression", syms |-> <<"AdditiveExpression", "MINUS", "MultiplicativeExpression">>, func |-> "p_AdditiveExpression"],
  [name |-> "AdditiveExpressionNoBF", syms |-> <<"MultiplicativeExpressionNoBF">>, func |-> "p_AdditiveExpressionNoBF"],
  [name |-> "AdditiveExpressionNoBF", syms |-> <<"AdditiveExpressionNoBF", "PLUS", "MultiplicativeExpression">>, func |-> "p_AdditiveExpressionNoBF"],
  [name |-> "AdditiveExpressionNoBF", syms |-> <<"AdditiveExpressionNoBF", "MINUS", "MultiplicativeExpression">>, func |-> "p_AdditiveExpressionNoBF"],
  [name |-> "ShiftExpression", syms |-> <<"AdditiveExpression">>, func |-> "p_ShiftExpression"],
  [name |-> "ShiftExpression", syms |-> <<"ShiftExpression", "LSHIFT", "AdditiveExpression">>, func |-> "p_ShiftExpression"],
  [name |-> "ShiftExpression", syms |-> <<"ShiftExpression", "RSHIFT", "AdditiveExpression">>, func |-> "p_ShiftExpression"],
  [name |-> "ShiftExpression", syms |-> <<"ShiftExpression", "URSHIFT", "AdditiveExpression">>, func |-> "p_ShiftExpression"],
  [name |-> "ShiftExpressionNoBF", syms |-> <<"AdditiveExpressionNoBF">>, func |-> "p_ShiftExpressionNoBF"],
  [name |-> "ShiftExpressionNoBF", syms |-> <<"ShiftExpressionNoBF", "LSHIFT", "AdditiveExpression">>, func |-> "p_ShiftExpressionNoBF"],
  [name |-> "ShiftExpressionNoBF", syms |-> <<"ShiftExpressionNoBF", "RSHIFT", "AdditiveExpression">>, func |-> "p_ShiftExpressionNoBF"],
  [name |-> "ShiftExpressionNoBF", syms |-> <<"ShiftExpressionNoBF", "URSHIFT", "AdditiveExpression">>, func |-> "p_ShiftExpressionNoBF"],
  [name |-> "RelationalExpression", syms |-> <<"ShiftExpression">>, func |-> "p_RelationalExpression"],
  [name |-> "RelationalExpression", syms |-> <<"RelationalExpression", "GT", "ShiftExpression">>, func |-> "p_RelationalExpression"],
  [name |-> "RelationalExpression", syms |-> <<"RelationalExpression", "LT", "ShiftExpression">>, func |-> "p_RelationalExpression"],
  [name |-> "RelationalExpression", syms |-> <<"RelationalExpression", "GE", "ShiftExpression">>, func |-> "p_RelationalExpression"],
  [name |-> "RelationalExpression", syms |-> <<"RelationalExpression", "LE", "ShiftExpression">>, func |-> "p_RelationalExpression"],
  [name |-> "RelationalExpression", syms |-> <<"RelationalExpression", "INSTANCEOF", "ShiftExpression">>, func |-> "p_RelationalExpression"],
  [name |-> "RelationalExpression", syms |-> <<"RelationalExpression", "IN", "ShiftExpression">>, func |-> "p_RelationalExpression"],
  [name |-> "RelationalExpressionNoIn", syms |-> <<"ShiftExpression">>, func |-> "p_RelationalExpressionNoIn"],
  [name |-> "RelationalExpressionNoIn", syms |-> <<"RelationalExpressionNoIn", "GT", "ShiftExpression">>, func |-> "p_RelationalExpressionNoIn"],
  [name |-> "RelationalExpressionNoIn", syms |-> <<"RelationalExpressionNoIn", "LT", "ShiftExpression">>, func |-> "p_RelationalExpressionNoIn"],
  [name |-> "RelationalExpressionNoIn", syms |-> <<"RelationalExpressionNoIn", "GE", "ShiftExpression">>, func |-> "p_RelationalExpressionNoIn"],
  [name |-> "RelationalExpressionNoIn", syms |-> <<"RelationalExpressionNoIn", "LE", "ShiftExpression">>, func |-> "p_RelationalExpressionNoIn"],
  [name |-> "RelationalExpressionNoIn", syms |-> <<"RelationalExpressionNoIn", "INSTANCEOF", "ShiftExpression">>, func |-> "p_RelationalExpressionNoIn"],
  [name |-> "RelationalExpressionNoBF", syms |-> <<"ShiftExpressionNoBF">>, func |-> "p_RelationalExpressionNoBF"],
  [name |-> "RelationalExpressionNoBF", syms |-> <<"RelationalExpressionNoBF", "GT", "ShiftExpression">>, func |-> "p_RelationalExpressionNoBF"],
  [name |-> "RelationalExpressionNoBF", syms |-> <<"RelationalExpressionNoBF", "LT", "ShiftExpression">>, func |-> "p_RelationalExpressionNoBF"],
  [name |-> "RelationalExpressionNoBF", syms |-> <<"RelationalExpressionNoBF", "GE", "ShiftExpression">>, func |-> "p_RelationalExpressionNoBF"],
  [name |-> "RelationalExpressionNoBF", syms |-> <<"RelationalExpressionNoBF", "LE", "ShiftExpression">>, func |-> "p_RelationalExpressionNoBF"],
  [name |-> "RelationalExpressionNoBF", syms |-> <<"RelationalExpressionNoBF", "INSTANCEOF", "ShiftExpression">>, func |-> "p_RelationalExpressionNoBF"],
  [name |-> "RelationalExpressionNoBF", syms |-> <<"RelationalExpressionNoBF", "IN", "ShiftExpression">>, func |-> "p_RelationalExpressionNoBF"],
  [name |-> "EqualityExpression", syms |-> <<"RelationalExpression">>, func |-> "p_EqualityExpression"],
  [name |-> "EqualityExpression", syms |-> <<"EqualityExpression", "EQ", "RelationalExpression">>, func |-> "p_EqualityExpression"],
  [name |-> "EqualityExpression", syms |-> <<"EqualityExpression", "NE", "RelationalExpression">>, func |-> "p_EqualityExpression"],
  [name |-> "EqualityExpression", syms |-> <<"EqualityExpression", "EQT", "RelationalExpression">>, func |-> "p_EqualityExpression"],
  [name |-> "EqualityExpression", syms |-> <<"EqualityExpression", "NET", "RelationalExpression">>, func |-> "p_EqualityExpression"],
  [name |-> "EqualityExpressionNoIn", syms |-> <<"RelationalExpressionNoIn">>, func |-> "p_EqualityExpressionNoIn"],
  [name |-> "EqualityExpressionNoIn", syms |-> <<"EqualityExpressionNoIn", "EQ", "RelationalExpressionNoIn">>, func |-> "p_EqualityExpressionNoIn"],
  [name |-> "EqualityExpressionNoIn", syms |-> <<"EqualityExpressionNoIn", "NE", "RelationalExpressionNoIn">>, func |-> "p_EqualityExpressionNoIn"],
  [name |-> "EqualityExpressionNoIn", syms |-> <<"EqualityExpressionNoIn", "EQT", "RelationalExpressionNoIn">>, func |-> "p_EqualityExpressionNoIn"],
  [name |-> "EqualityExpressionNoIn", syms |-> <<"EqualityExpressionNoIn", "NET", "RelationalExpressionNoIn">>, func |-> "p_EqualityExpressionNoIn"],
  [name |-> "EqualityExpressionNoBF", syms |-> <<"RelationalExpressionNoBF">>, func |-> "p_EqualityExpressionNoBF"],
  [name |-> "EqualityExpressionNoBF", syms |-> <<"EqualityExpressionNoBF", "EQ", "RelationalExpressionNoIn">>, func |-> "p_EqualityExpressionNoBF"],
  [name |-> "EqualityExpressionNoBF", syms |-> <<"EqualityExpressionNoBF", "NE", "RelationalExpressionNoIn">>, func |-> "p_EqualityExpressionNoBF"],
  [name |-> "EqualityExpressionNoBF", syms |-> <<"EqualityExpressionNoBF", "EQT", "RelationalExpressionNoIn">>, func |-> "p_EqualityExpressionNoBF"],
  [name |-> "EqualityExpressionNoBF", syms |-> <<"EqualityExpressionNoBF", "NET", "RelationalExpressionNoIn">>, func |-> "p_EqualityExpressionNoBF"],
  [name |-> "BitwiseANDExpression", syms |-> <<"EqualityExpression">>, func |-> "p_BitwiseANDExpression"],
  [name |-> "BitwiseANDExpression", syms |-> <<"BitwiseANDExpression", "AND", "EqualityExpression">>, func |-> "p_BitwiseANDExpression"],
  [name |-> "BitwiseANDExpressionNoIn", syms |-> <<"EqualityExpressionNoIn">>, func |-> "p_BitwiseANDExpressionNoIn"],
  [name |-> "BitwiseANDExpressionNoIn", syms |-> <<"BitwiseANDExpressionNoIn", "AND", "EqualityExpressionNoIn">>, func |-> "p_BitwiseANDExpressionNoIn"],
  [name |-> "BitwiseANDExpressionNoBF", syms |-> <<"EqualityExpressionNoBF">>, func |-> "p_BitwiseANDExpressionNoBF"],
  [name |-> "BitwiseANDExpressionNoBF", syms |-> <<"BitwiseANDExpressionNoBF", "AND", "EqualityExpressionNoIn">>, func |-> "p_BitwiseANDExpressionNoBF"],
  [name |-> "BitwiseXORExpression", syms |-> <<"BitwiseANDExpression">>, func |-> "p_BitwiseXORExpression"],
  [name |-> "BitwiseXORExpression", syms |-> <<"BitwiseXORExpression", "XOR", "BitwiseANDExpression">>, func |-> "p_BitwiseXORExpression"],
  [name |-> "BitwiseXORExpressionNoIn", syms |-> <<"BitwiseANDExpressionNoIn">>, func |-> "p_BitwiseXORExpressionNoIn"],
  [name |-> "BitwiseXORExpressionNoIn", syms |-> <<"BitwiseXORExpressionNoIn", "XOR", "BitwiseANDExpressionNoIn">>, func |-> "p_BitwiseXORExpressionNoIn"],
  [name |-> "BitwiseXORExpressionNoBF", syms |-> <<"BitwiseANDExpressionNoBF">>, func |-> "p_BitwiseXORExpressionNoBF"],
  [name |-> "BitwiseXORExpressionNoBF", syms |-> <<"BitwiseXORExpressionNoBF", "XOR", "BitwiseANDExpressionNoIn">>, func |-> "p_BitwiseXORExpressionNoBF"],
  [name |-> "BitwiseORExpression", syms |-> <<"BitwiseXORExpression">>, func |-> "p_BitwiseORExpression"],
  [name |-> "BitwiseORExpression", syms |-> <<"BitwiseORExpression", "OR", "BitwiseXORExpression">>, func |-> "p_BitwiseORExpression"],
  [name |-> "BitwiseORExpressionNoIn", syms |-> <<"BitwiseXORExpressionNoIn">>, func |-> "p_BitwiseORExpressionNoIn"],
  [name |-> "BitwiseORExpressionNoIn", syms |-> <<"BitwiseORExpressionNoIn", "OR", "BitwiseXORExpressionNoIn">>, func |-> "p_BitwiseORExpressionNoIn"],
  [name |-> "BitwiseORExpressionNoBF", syms |-> <<"BitwiseXORExpressionNoBF">>, func |-> "p_BitwiseORExpressionNoBF"],
  [name |-> "BitwiseORExpressionNoBF", syms |-> <<"BitwiseORExpressionNoBF", "OR", "BitwiseXORExpressionNoIn">>, func |-> "p_BitwiseORExpressionNoBF"],
  [name |-> "LogicalANDExpression", syms |-> <<"BitwiseORExpression">>, func |-> "p_LogicalANDExpression"],
  [name |-> "LogicalANDExpression", syms |-> <<"LogicalANDExpression", "LAND", "BitwiseORExpression">>, func |-> "p_LogicalANDExpression"],
  [name |-> "LogicalANDExpressionNoIn", syms |-> <<"BitwiseORExpressionNoIn">>, func |-> "p_LogicalANDExpressionNoIn"],
  [name |-> "LogicalANDExpressionNoIn", syms |-> <<"LogicalANDExpressionNoIn", "LAND", "BitwiseORExpressionNoIn">>, func |-> "p_LogicalANDExpressionNoIn"],
  [name |-> "LogicalANDExpressionNoBF", syms |-> <<"BitwiseORExpressionNoBF">>, func |-> "p_LogicalANDExpressionNoBF"],
  [name |-> "LogicalANDExpressionNoBF", syms |-> <<"LogicalANDExpressionNoBF", "LAND", "BitwiseORExpressionNoIn">>, func |-> "p_LogicalANDExpressionNoBF"],
  [name |-> "LogicalORExpression", syms |-> <<"LogicalANDExpression">>, func |-> "p_LogicalORExpression"],
  [name |-> "LogicalORExpression", syms |-> <<"LogicalORExpression", "LOR", "LogicalANDExpression">>, func |-> "p_LogicalORExpression"],
  [name |-> "LogicalORExpressionNoIn", syms |-> <<"LogicalANDExpressionNoIn">>, func |-> "p_LogicalORExpressionNoIn"],
  [name |-> "LogicalORExpressionNoIn", syms |-> <<"LogicalORExpressionNoIn", "LOR", "LogicalANDExpressionNoIn">>, func |-> "p_LogicalORExpressionNoIn"],
  [name |-> "LogicalORExpressionNoBF", syms |-> <<"LogicalANDExpressionNoBF">>, func |-> "p_LogicalORExpressionNoBF"],
  [name |-> "LogicalORExpressionNoBF", syms |-> <<"LogicalORExpressionNoBF", "LOR", "LogicalANDExpressionNoIn">>, func |-> "p_LogicalORExpressionNoBF"],
  [name |-> "ConditionalExpression", syms |-> <<"LogicalORExpression">>, func |-> "p_ConditionalExpression"],
  [name |-> "ConditionalExpression", syms |-> <<"LogicalORExpression", "CONDOP", "AssignmentExpression", "COLON", "AssignmentExpression">>, func |-> "p_ConditionalExpression"],
  [name |-> "ConditionalExpressionNoIn", syms |-> <<"LogicalORExpressionNoIn">>, func |-> "p_ConditionalExpressionNoIn"],
  [name |-> "ConditionalExpressionNoIn", syms |-> <<"LogicalORExpressionNoIn", "CONDOP", "AssignmentExpression", "COLON", "AssignmentExpressionNoIn">>, func |-> "p_ConditionalExpressionNoIn"],
  [name |-> "ConditionalExpressionNoBF", syms |-> <<"LogicalORExpressionNoBF">>, func |-> "p_ConditionalExpressionNoBF"],
  [name |-> "ConditionalExpressionNoBF", syms |-> <<"LogicalORExpressionNoBF", "CONDOP", "AssignmentExpression", "COLON", "AssignmentExpression">>, func |-> "p_ConditionalExpressionNoBF"],
  [name |-> "AssignmentExpression", syms |-> <<"ConditionalExpression">>, func |-> "p_AssignmentExpression"],
  [name |-> "AssignmentExpression", syms |-> <<"LeftHandSideExpression", "AssignmentOperator", "AssignmentExpression">>, func |-> "p_AssignmentExpression"],
  [name |-> "AssignmentExpressionNoIn", syms |-> <<"ConditionalExpressionNoIn">>, func |-> "p_AssignmentExpressionNoIn"],
  [name |-> "AssignmentExpressionNoIn", syms |-> <<"LeftHandSideExpression", "AssignmentOperator", "AssignmentExpressionNoIn">>, func |-> "p_AssignmentExpressionNoIn"],
  [name |-> "AssignmentExpressionNoBF", syms |-> <<"ConditionalExpressionNoBF">>, func |-> "p_AssignmentExpressionNoBF"],
  [name |-> "AssignmentExpressionNoBF", syms |-> <<"LeftHandSideExpressionNoBF", "AssignmentOperator", "AssignmentExpression">>, func |-> "p_AssignmentExpressionNoBF"],
  [name |-> "AssignmentOperator", syms |-> <<"EQUALS">>, func |-> "p_AssignmentOperator"],
  [name |-> "AssignmentOperator", syms |-> <<"TIMES_EQUALS">>, func |-> "p_AssignmentOperator"],
  [name |-> "AssignmentOperator", syms |-> <<"DIVIDE_EQUALS">>, func |-> "p_AssignmentOperator"],
  [name |-> "AssignmentOperator", syms |-> <<"MOD_EQUALS">>, func |-> "p_AssignmentOperator"],
  [name |-> "AssignmentOperator", syms |-> <<"PLUS_EQUALS">>, func |-> "p_AssignmentOperator"],
  [name |-> "AssignmentOperator", syms |-> <<"MINUS_EQUALS">>, func |-> "p_AssignmentOperator"],
  [name |-> "AssignmentOperator", syms |-> <<"LSHIFT_EQUALS">>, func |-> "p_AssignmentOperator"],
  [name |-> "AssignmentOperator", syms |-> <<"RSHIFT_EQUALS">>, func |-> "p_AssignmentOperator"],
  [name |-> "AssignmentOperator", syms |-> <<"URSHIFT_EQUALS">>, func |-> "p_AssignmentOperator"],
  [name |-> "AssignmentOperator", syms |-> <<"AND_EQUALS">>, func |-> "p_AssignmentOperator"],
  [name |-> "AssignmentOperator", syms |-> <<"XOR_EQUALS">>, func |-> "p_AssignmentOperator"],
  [name |-> "AssignmentOperator", syms |-> <<"OR_EQUALS">>, func |-> "p_AssignmentOperator"],
  [name |-> "Expression", syms |-> <<"AssignmentExpression">>, func |-> "p_Expression"],
  [name |-> "Expression", syms |-> <<"Expression", "COMMA", "AssignmentExpression">>, func |-> "p_Expression"],
  [name |-> "ExpressionNoIn", syms |-> <<"AssignmentExpressionNoIn">>, func |-> "p_ExpressionNoIn"],
  [name |-> "ExpressionNoIn", syms |-> <<"ExpressionNoIn", "COMMA", "AssignmentExpressionNoIn">>, func |-> "p_ExpressionNoIn"],
  [name |-> "ExpressionNoBF", syms |-> <<"AssignmentExpressionNoBF">>, func |-> "p_ExpressionNoBF"],
  [name |-> "ExpressionNoBF", syms |-> <<"ExpressionNoBF", "COMMA", "AssignmentExpression">>, func |-> "p_ExpressionNoBF"],
  [name |-> "Statement", syms |-> <<"Block">>, func |-> "p_Statement"],
  [name |-> "Statement", syms |-> <<"VariableStatement">>, func |-> "p_Statement"],
  [name |-> "Statement", syms |-> <<"EmptyStatement">>, func |-> "p_Statement"],
  [name |-> "Statement", syms |-> <<"ExpressionStatement">>, func |-> "p_Statement"],
  [name |-> "Statement", syms |-> <<"IfStatement">>, func |-> "p_Statement"],
  [name |-> "Statement", syms |-> <<"IterationStatement">>, func |-> "p_Statement"],
  [name |-> "Statement", syms |-> <<"ContinueStatement">>, func |-> "p_Statement"],
  [name |-> "Statement", syms |-> <<"BreakStatement">>, func |-> "p_Statement"],
  [name |-> "Statement", syms |-> <<"ReturnStatement">>, func |-> "p_Statement"],
  [name |-> "Statement", syms |-> <<"WithStatement">>, func |-> "p_Statement"],
  [name |-> "Statement", syms |-> <<"LabelledStatement">>, func |-> "p_Statement"],
  [name |-> "Statement", syms |-> <<"SwitchStatement">>, func |-> "p_Statement"],
  [name |-> "Statement", syms |-> <<"ThrowStatement">>, func |-> "p_Statement"],
  [name |-> "Statement", syms |-> <<"TryStatement">>, func |-> "p_Statement"],
  [name |-> "Statement", syms |-> <<"DebuggerStatement">>, func |-> "p_Statement"],
  [name |-> "Block", syms |-> <<"LBRACE", "StatementList_opt", "RBRACE">>, func |-> "p_Block"],
  [name |-> "StatementList", syms |-> <<"Statement">>, func |-> "p_StatementList"],
  [name |-> "StatementList", syms |-> <<"StatementList", "Statement">>, func |-> "p_StatementList"],
  [name |-> "VariableStatement", syms |-> <<"VAR", "VariableDeclarationList", "SEMI">>, func |-> "p_VariableStatement"],
  [name |-> "VariableStatement", syms |-> <<"VAR", "VariableDeclarationList", "auto_semicolon">>, func |-> "p_VariableStatement"],
  [name |-> "VariableDeclarationList", syms |-> <<"VariableDeclaration">>, func |-> "p_VariableDeclarationList"],
  [name |-> "VariableDeclarationList", syms |-> <<"VariableDeclarationList", "COMMA", "VariableDeclaration">>, func |-> "p_VariableDeclarationList"],
  [name |-> "VariableDeclarationListNoIn", syms |-> <<"VariableDeclarationNoIn">>, func |-> "p_VariableDeclarationListNoIn"],
  [name |-> "VariableDeclarationListNoIn", syms |-> <<"VariableDeclarationListNoIn", "COMMA", "VariableDeclarationNoIn">>, func |-> "p_VariableDeclarationListNoIn"],
  [name |-> "VariableDeclaration", syms |-> <<"Identifier", "Initialiser_opt">>, func |-> "p_VariableDeclaration"],
  [name |-> "VariableDeclarationNoIn", syms |-> <<"Identifier", "InitialiserNoIn_opt">>, func |-> "p_VariableDeclarationNoIn"],
  [name |-> "Initialiser", syms |-> <<"EQUALS", "AssignmentExpression">>, func |-> "p_Initialiser"],
  [name |-> "InitialiserNoIn", syms |-> <<"EQUALS", "AssignmentExpressionNoIn">>, func |-> "p_InitialiserNoIn"],
  [name |-> "EmptyStatement", syms |-> <<"SEMI">>, func |-> "p_EmptyStatement"],
  [name |-> "ExpressionStatement", syms |-> <<"ExpressionNoBF", "SEMI">>, func |-> "p_ExpressionStatement"],
  [name |-> "ExpressionStatement", syms |-> <<"ExpressionNoBF", "auto_semicolon">>, func |-> "p_ExpressionStatement"],
  [name |-> "IfStatement", syms |-> <<"IF", "LPAREN", "Expression", "RPAREN", "Statement">>, func |-> "p_IfStatement"],
  [name |-> "IfStatement", syms |-> <<"IF", "LPAREN", "Expression", "RPAREN", "Statement", "ELSE", "Statement">>, func |-> "p_IfStatement"],
  [name |-> "IterationStatement", syms |-> <<"DO", "Statement", "WHILE", "LPAREN", "Expression", "RPAREN", "SEMI">>, func |-> "p_IterationStatement_1"],
  [name |-> "IterationStatement", syms |-> <<"WHILE", "LPAREN", "Expression", "RPAREN", "Statement">>, func |-> "p_IterationStatement_2"],
  [name |-> "IterationStatement", syms |-> <<"FOR", "LPAREN", "ExpressionNoIn_opt", "SEMI", "Expression_opt", "SEMI", "Expression_opt", "RPAREN", "Statement">>, func |-> "p_IterationStatement_3"],
  [name |-> "IterationStatement", syms |-> <<"FOR", "LPAREN", "VAR", "VariableDeclarationListNoIn", "SEMI", "Expression_opt", "SEMI", "Expression_opt", "RPAREN", "Statement">>, func |-> "p_IterationStatement_3"],
  [name |-> "IterationStatement", syms |-> <<"FOR", "LPAREN", "LeftHandSideExpression", "IN", "Expression", "RPAREN", "Statement">>, func |-> "p_IterationStatement_4"],
  [name |-> "IterationStatement", syms |-> <<"FOR", "LPAREN", "VAR", "VariableDeclarationNoIn", "IN", "Expression", "RPAREN", "Statement">>, func |-> "p_IterationStatement_4"],
  [name |-> "ContinueStatement", syms |-> <<"CONTINUE", "Identifier_opt", "SEMI">>, func |-> "p_ContinueStatement"],
  [name |-> "BreakStatement", syms |-> <<"BREAK", "Identifier_opt", "SEMI">>, func |-> "p_BreakStatement"],
  [name |-> "ReturnStatement", syms |-> <<"RETURN", "Expression_opt", "SEMI">>, func |-> "p_ReturnStatement"],
  [name |-> "ReturnStatement", syms |-> <<"RETURN", "Expression_opt", "auto_semicolon">>, func |-> "p_ReturnStatement"],
  [name |-> "WithStatement", syms |-> <<"WITH", "LPAREN", "Expression", "RPAREN", "Statement">>, func |-> "p_WithStatement"],
  [name |-> "SwitchStatement", syms |-> <<"SWITCH", "LPAREN", "Expression", "RPAREN", "CaseBlock">>, func |-> "p_SwitchStatement"],
  [name |-> "CaseBlock", syms |-> <<"LBRACE", "CaseClauses_opt", "RBRACE">>, func |-> "p_CaseBlock"],
  [name |-> "CaseBlock", syms |-> <<"LBRACE", "CaseClauses_opt", "DefaultClause", "CaseClauses_opt", "RBRACE">>, func |-> "p_CaseBlock"],
  [name |-> "CaseClauses", syms |-> <<"CaseClause">>, func |-> "p_CaseClauses"],
  [name |-> "CaseClauses", syms |-> <<"CaseClauses", "CaseClause">>, func |-> "p_CaseClauses"],
  [name |-> "CaseClause", syms |-> <<"CASE", "Expression", "COLON", "StatementList_opt">>, func |-> "p_CaseClause"],
  [name |-> "DefaultClause", syms |-> <<"DEFAULT", "COLON", "StatementList_opt">>, func |-> "p_DefaultClause"],
  [name |-> "LabelledStatement", syms |-> <<"Identifier", "COLON", "Statement">>, func |-> "p_LabelledStatement"],
  [name |-> "ThrowStatement", syms |-> <<"THROW", "Expression", "SEMI">>, func |-> "p_ThrowStatement"],
  [name |-> "TryStatement", syms |-> <<"TRY", "Block", "Catch">>, func |-> "p_TryStatement_1"],
  [name |-> "TryStatement", syms |-> <<"TRY", "Block", "Finally">>, func |-> "p_TryStatement_2"],
  [name |-> "TryStatement", syms |-> <<"TRY", "Block", "Catch", "Finally">>, func |-> "p_TryStatement_2"],
  [name |-> "Catch", syms |-> <<"CATCH", "LPAREN", "Identifier", "RPAREN", "Block">>, func |-> "p_Catch"],
  [name |-> "Finally", syms |-> <<"FINALLY", "Block">>, func |-> "p_Finally"],
  [name |-> "DebuggerStatement", syms |-> <<"DEBUGGER", "SEMI">>, func |-> "p_DebuggerStatement"],
  [name |-> "FunctionDeclaration", syms |-> <<"FUNCTION", "Identifier", "LPAREN", "FormalParameterList_opt", "RPAREN", "LBRACE", "FunctionBody", "RBRACE">>, func |-> "p_FunctionDeclaration"],
  [name |-> "FunctionExpression", syms |-> <<"FUNCTION", "Identifier_opt", "LPAREN", "FormalParameterList_opt", "RPAREN", "LBRACE", "FunctionBody", "RBRACE">>, func |-> "p_FunctionExpression"],
  [name |-> "FormalParameterList", syms |-> <<"Identifier">>, func |-> "p_FormalParameterList"],
  [name |-> "FormalParameterList", syms |-> <<"FormalParameterList", "COMMA", "Identifier">>, func |-> "p_FormalParameterList"],
  [name |-> "FunctionBody", syms |-> <<"SourceElements_opt">>, func |-> "p_FunctionBody"],
  [name |-> "Program", syms |-> <<"SourceElements_opt">>, func |-> "p_Program"],
  [name |-> "SourceElements", syms |-> <<"SourceElement">>, func |-> "p_SourceElements"],
  [name |-> "SourceElements", syms |-> <<"SourceElements", "SourceElement">>, func |-> "p_SourceElements"],
  [name |-> "SourceElement", syms |-> <<"Statement">>, func |-> "p_SourceElement"],
  [name |-> "SourceElement", syms |-> <<"FunctionDeclaration">>, func |-> "p_SourceElement"],
  [name |-> "SourceElement", syms |-> <<"Comment">>, func |-> "p_SourceElement"],
  [name |-> "S'", syms |-> <<"Program">>, func |-> ""]
  >>

LookaheadSets ==
  <<
  {"$end"},
  {"RBRACE", "$end"},
  {"BLOCK_COMMENT", "BREAK", "COMMENT", "CONTINUE", "DEBUGGER", "DECR", "DECR_NO_LT", "DELETE",
     "DO", "FALSE", "FOR", "FUNCTION", "ID", "IF", "INCR", "INCR_NO_LT", "LBRACE", "LBRACKET",
     "LNOT", "LPAREN", "MINUS", "NEW", "NOT", "NULL", "NUMBER_LITERAL", "PLUS", "RBRACE", "REGEX",
     "RETURN", "SEMI", "STRING_LITERAL", "SWITCH", "THIS", "THROW", "TRUE", "TRY", "TYPEOF", "VAR",
     "VOID", "WHILE", "WITH", "$end"},
  {"BLOCK_COMMENT", "BREAK", "CASE", "COMMENT", "CONTINUE", "DEBUGGER", "DECR", "DECR_NO_LT",
     "DEFAULT", "DELETE", "DO", "ELSE", "FALSE", "FOR", "FUNCTION", "ID", "IF", "INCR",
     "INCR_NO_LT", "LBRACE", "LBRACKET", "LNOT", "LPAREN", "MINUS", "NEW", "NOT", "NULL",
     "NUMBER_LITERAL", "PLUS", "RBRACE", "REGEX", "RETURN", "SEMI", "STRING_LITERAL", "SWITCH",
     "THIS", "THROW", "TRUE", "TRY", "TYPEOF", "VAR", "VOID", "WHILE", "WITH", "$end"},
  {"RBRACE"},
  {"SEMI"},
  {"SEMI", "error"},
  {"AND", "AND_EQUALS", "COMMA", "CONDOP", "DECR_NO_LT", "DIVIDE", "DIVIDE_EQUALS", "EQ", "EQT",
     "EQUALS", "GE", "GT", "IN", "INCR_NO_LT", "INSTANCEOF", "LAND", "LBRACKET", "LE", "LOR",
     "LPAREN", "LSHIFT", "LSHIFT_EQUALS", "LT", "MINUS", "MINUS_EQUALS", "MOD", "MOD_EQUALS", "NE",
     "NET", "OR", "OR_EQUALS", "PERIOD", "PLUS", "PLUS_EQUALS", "RSHIFT", "RSHIFT_EQUALS", "SEMI",
     "TIMES", "TIMES_EQUALS", "URSHIFT", "URSHIFT_EQUALS", "XOR", "XOR_EQUALS", "error"},
  {"COMMA", "SEMI", "error"},
  {"AND", "AND_EQUALS", "COLON", "COMMA", "CONDOP", "DECR_NO_LT", "DIVIDE", "DIVIDE_EQUALS", "EQ",
     "EQT", "EQUALS", "GE", "GT", "IN", "INCR_NO_LT", "INSTANCEOF", "LAND", "LBRACKET", "LE", "LOR",
     "LPAREN", "LSHIFT", "LSHIFT_EQUALS", "LT", "MINUS", "MINUS_EQUALS", "MOD", "MOD_EQUALS", "NE",
     "NET", "OR", "OR_EQUALS", "PERIOD", "PLUS", "PLUS_EQUALS", "RBRACE", "RBRACKET", "RPAREN",
     "RSHIFT", "RSHIFT_EQUALS", "SEMI", "TIMES", "TIMES_EQUALS", "URSHIFT", "URSHIFT_EQUALS", "XOR",
     "XOR_EQUALS", "error"},
  {"AND", "COMMA", "CONDOP", "DIVIDE", "EQ", "EQT", "GE", "GT", "IN", "INSTANCEOF", "LAND", "LE",
     "LOR", "LSHIFT", "LT", "MINUS", "MOD", "NE", "NET", "OR", "PLUS", "RSHIFT", "SEMI", "TIMES",
     "URSHIFT", "XOR", "error"},
  {"AND", "AND_EQUALS", "COMMA", "CONDOP", "DECR_NO_LT", "DIVIDE", "DIVIDE_EQUALS", "EQ", "EQT",
     "EQUALS", "GE", "GT", "IN", "INCR_NO_LT", "INSTANCEOF", "LAND", "LE", "LOR", "LSHIFT",
     "LSHIFT_EQUALS", "LT", "MINUS", "MINUS_EQUALS", "MOD", "MOD_EQUALS", "NE", "NET", "OR",
     "OR_EQUALS", "PLUS", "PLUS_EQUALS", "RSHIFT", "RSHIFT_EQUALS", "SEMI", "TIMES", "TIMES_EQUALS",
     "URSHIFT", "URSHIFT_EQUALS", "XOR", "XOR_EQUALS", "error"},
  {"COMMA", "CONDOP", "LOR", "SEMI", "error"},
  {"COMMA", "CONDOP", "LAND", "LOR", "SEMI", "error"},
  {"COMMA", "CONDOP", "LAND", "LOR", "OR", "SEMI", "error"},
  {"COMMA", "CONDOP", "LAND", "LOR", "OR", "SEMI", "XOR", "error"},
  {"DECR", "DECR_NO_LT", "DELETE", "FALSE", "FUNCTION", "ID", "INCR", "INCR_NO_LT", "LBRACE",
     "LBRACKET", "LNOT", "LPAREN", "MINUS", "NEW", "NOT", "NULL", "NUMBER_LITERAL", "PLUS",
     "RBRACKET", "REGEX", "STRING_LITERAL", "THIS", "TRUE", "TYPEOF", "VOID"},
  {"AND", "COMMA", "CONDOP", "LAND", "LOR", "OR", "SEMI", "XOR", "error"},
  {"AND", "COMMA", "CONDOP", "EQ", "EQT", "LAND", "LOR", "NE", "NET", "OR", "SEMI", "XOR", "error"},
  {"AND", "COMMA", "CONDOP", "EQ", "EQT", "GE", "GT", "IN", "INSTANCEOF", "LAND", "LE", "LOR", "LT",
     "NE", "NET", "OR", "SEMI", "XOR", "error"},
  {"AND", "COMMA", "CONDOP", "EQ", "EQT", "GE", "GT", "IN", "INSTANCEOF", "LAND", "LE", "LOR",
     "LSHIFT", "LT", "NE", "NET", "OR", "RSHIFT", "SEMI", "URSHIFT", "XOR", "error"},
  {"AND", "COMMA", "CONDOP", "EQ", "EQT", "GE", "GT", "IN", "INSTANCEOF", "LAND", "LE", "LOR",
     "LSHIFT", "LT", "MINUS", "NE", "NET", "OR", "PLUS", "RSHIFT", "SEMI", "URSHIFT", "XOR",
     "error"},
  {"CASE", "DEFAULT", "RBRACE"},
  {"BREAK", "CASE", "CONTINUE", "DEBUGGER", "DECR", "DECR_NO_LT", "DEFAULT", "DELETE", "DO",
     "FALSE", "FOR", "ID", "IF", "INCR", "INCR_NO_LT", "LBRACE", "LBRACKET", "LNOT", "LPAREN",
     "MINUS", "NEW", "NOT", "NULL", "NUMBER_LITERAL", "PLUS", "RBRACE", "REGEX", "RETURN", "SEMI",
     "STRING_LITERAL", "SWITCH", "THIS", "THROW", "TRUE", "TRY", "TYPEOF", "VAR", "VOID", "WHILE",
     "WITH"},
  {"LPAREN", "SEMI"},
  {"RPAREN", "SEMI", "error"},
  {"COLON", "COMMA", "RBRACKET", "RPAREN", "SEMI", "error"},
  {"COLON", "COMMA", "RBRACE", "RBRACKET", "RPAREN", "SEMI", "error"},
  {"AND", "COLON", "COMMA", "CONDOP", "DIVIDE", "EQ", "EQT", "GE", "GT", "IN", "INSTANCEOF", "LAND",
     "LE", "LOR", "LSHIFT", "LT", "MINUS", "MOD", "NE", "NET", "OR", "PLUS", "RBRACE", "RBRACKET",
     "RPAREN", "RSHIFT", "SEMI", "TIMES", "URSHIFT", "XOR", "error"},
  {"AND", "AND_EQUALS", "COLON", "COMMA", "CONDOP", "DECR_NO_LT", "DIVIDE", "DIVIDE_EQUALS", "EQ",
     "EQT", "EQUALS", "GE", "GT", "IN", "INCR_NO_LT", "INSTANCEOF", "LAND", "LE", "LOR", "LSHIFT",
     "LSHIFT_EQUALS", "LT", "MINUS", "MINUS_EQUALS", "MOD", "MOD_EQUALS", "NE", "NET", "OR",
     "OR_EQUALS", "PLUS", "PLUS_EQUALS", "RBRACE", "RBRACKET", "RPAREN", "RSHIFT", "RSHIFT_EQUALS",
     "SEMI", "TIMES", "TIMES_EQUALS", "URSHIFT", "URSHIFT_EQUALS", "XOR", "XOR_EQUALS", "error"},
  {"COLON", "COMMA", "CONDOP", "LOR", "RBRACE", "RBRACKET", "RPAREN", "SEMI", "error"},
  {"COLON", "COMMA", "CONDOP", "LAND", "LOR", "RBRACE", "RBRACKET", "RPAREN", "SEMI", "error"},
  {"COLON", "COMMA", "CONDOP", "LAND", "LOR", "OR", "RBRACE", "RBRACKET", "RPAREN", "SEMI", "error"},
  {"LPAREN"},
  {"COLON", "COMMA", "CONDOP", "LAND", "LOR", "OR", "RBRACE", "RBRACKET", "RPAREN", "SEMI", "XOR",
     "error"},
  {"AND", "COLON", "COMMA", "CONDOP", "LAND", "LOR", "OR", "RBRACE", "RBRACKET", "RPAREN", "SEMI",
     "XOR", "error"},
  {"AND", "COLON", "COMMA", "CONDOP", "EQ", "EQT", "LAND", "LOR", "NE", "NET", "OR", "RBRACE",
     "RBRACKET", "RPAREN", "SEMI", "XOR", "error"},
  {"AND", "COLON", "COMMA", "CONDOP", "EQ", "EQT", "GE", "GT", "IN", "INSTANCEOF", "LAND", "LE",
     "LOR", "LT", "NE", "NET", "OR", "RBRACE", "RBRACKET", "RPAREN", "SEMI", "XOR", "error"},
  {"AND", "COLON", "COMMA", "CONDOP", "EQ", "EQT", "GE", "GT", "IN", "INSTANCEOF", "LAND", "LE",
     "LOR", "LSHIFT", "LT", "NE", "NET", "OR", "RBRACE", "RBRACKET", "RPAREN", "RSHIFT", "SEMI",
     "URSHIFT", "XOR", "error"},
  {"AND", "COLON", "COMMA", "CONDOP", "EQ", "EQT", "GE", "GT", "IN", "INSTANCEOF", "LAND", "LE",
     "LOR", "LSHIFT", "LT", "MINUS", "NE", "NET", "OR", "PLUS", "RBRACE", "RBRACKET", "RPAREN",
     "RSHIFT", "SEMI", "URSHIFT", "XOR", "error"},
  {"DECR", "DECR_NO_LT", "DELETE", "FALSE", "FUNCTION", "ID", "INCR", "INCR_NO_LT", "LBRACE",
     "LBRACKET", "LNOT", "LPAREN", "MINUS", "NEW", "NOT", "NULL", "NUMBER_LITERAL", "PLUS", "REGEX",
     "STRING_LITERAL", "THIS", "TRUE", "TYPEOF", "VOID"},
  {"COMMA", "DECR", "DECR_NO_LT", "DELETE", "FALSE", "FUNCTION", "ID", "INCR", "INCR_NO_LT",
     "LBRACE", "LBRACKET", "LNOT", "LPAREN", "MINUS", "NEW", "NOT", "NULL", "NUMBER_LITERAL",
     "PLUS", "RBRACKET", "REGEX", "STRING_LITERAL", "THIS", "TRUE", "TYPEOF", "VOID"},
  {"RPAREN"},
  {"BLOCK_COMMENT", "BREAK", "CASE", "CATCH", "COMMENT", "CONTINUE", "DEBUGGER", "DECR",
     "DECR_NO_LT", "DEFAULT", "DELETE", "DO", "ELSE", "FALSE", "FINALLY", "FOR", "FUNCTION", "ID",
     "IF", "INCR", "INCR_NO_LT", "LBRACE", "LBRACKET", "LNOT", "LPAREN", "MINUS", "NEW", "NOT",
     "NULL", "NUMBER_LITERAL", "PLUS", "RBRACE", "REGEX", "RETURN", "SEMI", "STRING_LITERAL",
     "SWITCH", "THIS", "THROW", "TRUE", "TRY", "TYPEOF", "VAR", "VOID", "WHILE", "WITH", "$end"},
  {"AND", "COMMA", "CONDOP", "DIVIDE", "EQ", "EQT", "GE", "GT", "INSTANCEOF", "LAND", "LE", "LOR",
     "LSHIFT", "LT", "MINUS", "MOD", "NE", "NET", "OR", "PLUS", "RSHIFT", "SEMI", "TIMES",
     "URSHIFT", "XOR"},
  {"COMMA", "SEMI"},
  {"COMMA", "IN", "SEMI"},
  {"COMMA", "CONDOP", "IN", "LOR", "SEMI"},
  {"COMMA", "CONDOP", "IN", "LAND", "LOR", "SEMI", "error"},
  {"COMMA", "CONDOP", "IN", "LAND", "LOR", "OR", "SEMI", "error"},
  {"COMMA", "CONDOP", "IN", "LAND", "LOR", "OR", "SEMI", "XOR", "error"},
  {"AND", "COMMA", "CONDOP", "IN", "LAND", "LOR", "OR", "SEMI", "XOR", "error"},
  {"AND", "COMMA", "CONDOP", "EQ", "EQT", "IN", "LAND", "LOR", "NE", "NET", "OR", "SEMI", "XOR",
     "error"},
  {"COMMA", "RBRACE"},
  {"COLON", "LPAREN"},
  {"COMMA", "RPAREN"},
  {"COMMA", "RBRACKET"},
  {"BLOCK_COMMENT", "BREAK", "CASE", "COMMENT", "CONTINUE", "DEBUGGER", "DECR", "DECR_NO_LT",
     "DEFAULT", "DELETE", "DO", "FALSE", "FOR", "FUNCTION", "ID", "IF", "INCR", "INCR_NO_LT",
     "LBRACE", "LBRACKET", "LNOT", "LPAREN", "MINUS", "NEW", "NOT", "NULL", "NUMBER_LITERAL",
     "PLUS", "RBRACE", "REGEX", "RETURN", "SEMI", "STRING_LITERAL", "SWITCH", "THIS", "THROW",
     "TRUE", "TRY", "TYPEOF", "VAR", "VOID", "WHILE", "WITH", "$end"},
  {"AND", "COMMA", "CONDOP", "DIVIDE", "EQ", "EQT", "GE", "GT", "IN", "INSTANCEOF", "LAND", "LE",
     "LOR", "LSHIFT", "LT", "MINUS", "MOD", "NE", "NET", "OR", "PLUS", "RSHIFT", "SEMI", "TIMES",
     "URSHIFT", "XOR"},
  {"DEFAULT", "RBRACE"},
  {"BLOCK_COMMENT", "BREAK", "CASE", "COMMENT", "CONTINUE", "DEBUGGER", "DECR", "DECR_NO_LT",
     "DEFAULT", "DELETE", "DO", "ELSE", "FALSE", "FINALLY", "FOR", "FUNCTION", "ID", "IF", "INCR",
     "INCR_NO_LT", "LBRACE", "LBRACKET", "LNOT", "LPAREN", "MINUS", "NEW", "NOT", "NULL",
     "NUMBER_LITERAL", "PLUS", "RBRACE", "REGEX", "RETURN", "SEMI", "STRING_LITERAL", "SWITCH",
     "THIS", "THROW", "TRUE", "TRY", "TYPEOF", "VAR", "VOID", "WHILE", "WITH", "$end"},
  {"CASE", "RBRACE"}
  >>

ShiftMaps ==
  <<
  {<<"BLOCK_COMMENT", 45>>, <<"BREAK", 36>>, <<"COMMENT", 44>>, <<"CONTINUE", 35>>, <<"DEBUGGER",
     43>>, <<"DECR", 89>>, <<"DECR_NO_LT", 90>>, <<"DELETE", 84>>, <<"DO", 32>>, <<"FALSE", 73>>,
     <<"FOR", 34>>, <<"FUNCTION", 24>>, <<"ID", 47>>, <<"IF", 31>>, <<"INCR", 87>>, <<"INCR_NO_LT",
     88>>, <<"LBRACE", 27>>, <<"LBRACKET", 69>>, <<"LNOT", 94>>, <<"LPAREN", 62>>, <<"MINUS", 92>>,
     <<"NEW", 55>>, <<"NOT", 93>>, <<"NULL", 71>>, <<"NUMBER_LITERAL", 74>>, <<"PLUS", 91>>,
     <<"REGEX", 76>>, <<"RETURN", 37>>, <<"SEMI", 29>>, <<"STRING_LITERAL", 75>>, <<"SWITCH", 40>>,
     <<"THIS", 59>>, <<"THROW", 41>>, <<"TRUE", 72>>, <<"TRY", 42>>, <<"TYPEOF", 86>>, <<"VAR",
     28>>, <<"VOID", 85>>, <<"WHILE", 33>>, <<"WITH", 38>>},
  {<<"ID", 47>>},
  {<<"BREAK", 36>>, <<"CONTINUE", 35>>, <<"DEBUGGER", 43>>, <<"DECR", 89>>, <<"DECR_NO_LT", 90>>,
     <<"DELETE", 84>>, <<"DO", 32>>, <<"FALSE", 73>>, <<"FOR", 34>>, <<"ID", 47>>, <<"IF", 31>>,
     <<"INCR", 87>>, <<"INCR_NO_LT", 88>>, <<"LBRACE", 27>>, <<"LBRACKET", 69>>, <<"LNOT", 94>>,
     <<"LPAREN", 62>>, <<"MINUS", 92>>, <<"NEW", 55>>, <<"NOT", 93>>, <<"NULL", 71>>,
     <<"NUMBER_LITERAL", 74>>, <<"PLUS", 91>>, <<"REGEX", 76>>, <<"RETURN", 37>>, <<"SEMI", 29>>,
     <<"STRING_LITERAL", 75>>, <<"SWITCH", 40>>, <<"THIS", 59>>, <<"THROW", 41>>, <<"TRUE", 72>>,
     <<"TRY", 42>>, <<"TYPEOF", 86>>, <<"VAR", 28>>, <<"VOID", 85>>, <<"WHILE", 33>>, <<"WITH",
     38>>},
  {<<"COMMA", 104>>, <<"SEMI", 105>>, <<"error", 107>>},
  {<<"LPAREN", 108>>},
  {<<"LPAREN", 110>>},
  {<<"LPAREN", 111>>},
  {<<"DECR", 89>>, <<"DECR_NO_LT", 90>>, <<"DELETE", 84>>, <<"FALSE", 73>>, <<"FUNCTION", 134>>,
     <<"ID", 47>>, <<"INCR", 87>>, <<"INCR_NO_LT", 88>>, <<"LBRACE", 137>>, <<"LBRACKET", 69>>,
     <<"LNOT", 94>>, <<"LPAREN", 62>>, <<"MINUS", 92>>, <<"NEW", 127>>, <<"NOT", 93>>, <<"NULL",
     71>>, <<"NUMBER_LITERAL", 74>>, <<"PLUS", 91>>, <<"REGEX", 76>>, <<"STRING_LITERAL", 75>>,
     <<"THIS", 59>>, <<"TRUE", 72>>, <<"TYPEOF", 86>>, <<"VOID", 85>>},
  {<<"LPAREN", 146>>},
  {<<"COLON", 147>>},
  {<<"LPAREN", 148>>},
  {<<"LBRACE", 27>>},
  {<<"SEMI", 151>>},
  {<<"AND_EQUALS", 164>>, <<"DECR_NO_LT", 153>>, <<"DIVIDE_EQUALS", 157>>, <<"EQUALS", 155>>,
     <<"INCR_NO_LT", 152>>, <<"LSHIFT_EQUALS", 161>>, <<"MINUS_EQUALS", 160>>, <<"MOD_EQUALS",
     158>>, <<"OR_EQUALS", 166>>, <<"PLUS_EQUALS", 159>>, <<"RSHIFT_EQUALS", 162>>,
     <<"TIMES_EQUALS", 156>>, <<"URSHIFT_EQUALS", 163>>, <<"XOR_EQUALS", 165>>},
  {<<"CONDOP", 168>>, <<"LOR", 167>>},
  {<<"LBRACKET", 170>>, <<"LPAREN", 172>>, <<"PERIOD", 171>>},
  {<<"LAND", 173>>},
  {<<"LBRACKET", 174>>, <<"LPAREN", 172>>, <<"PERIOD", 175>>},
  {<<"FALSE", 73>>, <<"FUNCTION", 134>>, <<"ID", 47>>, <<"LBRACE", 137>>, <<"LBRACKET", 69>>,
     <<"LPAREN", 62>>, <<"NEW", 127>>, <<"NULL", 71>>, <<"NUMBER_LITERAL", 74>>, <<"REGEX", 76>>,
     <<"STRING_LITERAL", 75>>, <<"THIS", 59>>, <<"TRUE", 72>>},
  {<<"OR", 179>>},
  {<<"XOR", 180>>},
  {<<"AND", 182>>},
  {<<"COMMA", 187>>},
  {<<"EQ", 188>>, <<"EQT", 190>>, <<"NE", 189>>, <<"NET", 191>>},
  {<<"GE", 194>>, <<"GT", 192>>, <<"IN", 197>>, <<"INSTANCEOF", 196>>, <<"LE", 195>>, <<"LT", 193>>},
  {<<"LSHIFT", 198>>, <<"RSHIFT", 199>>, <<"URSHIFT", 200>>},
  {<<"MINUS", 202>>, <<"PLUS", 201>>},
  {<<"DIVIDE", 204>>, <<"MOD", 205>>, <<"TIMES", 203>>},
  {<<"LPAREN", 218>>},
  {<<"RBRACE", 219>>},
  {<<"COMMA", 223>>, <<"SEMI", 221>>, <<"error", 107>>},
  {<<"EQUALS", 227>>},
  {<<"WHILE", 230>>},
  {<<"DECR", 89>>, <<"DECR_NO_LT", 90>>, <<"DELETE", 84>>, <<"FALSE", 73>>, <<"FUNCTION", 134>>,
     <<"ID", 47>>, <<"INCR", 87>>, <<"INCR_NO_LT", 88>>, <<"LBRACE", 137>>, <<"LBRACKET", 69>>,
     <<"LNOT", 94>>, <<"LPAREN", 62>>, <<"MINUS", 92>>, <<"NEW", 127>>, <<"NOT", 93>>, <<"NULL",
     71>>, <<"NUMBER_LITERAL", 74>>, <<"PLUS", 91>>, <<"REGEX", 76>>, <<"STRING_LITERAL", 75>>,
     <<"THIS", 59>>, <<"TRUE", 72>>, <<"TYPEOF", 86>>, <<"VAR", 233>>, <<"VOID", 85>>},
  {<<"SEMI", 247>>},
  {<<"SEMI", 248>>},
  {<<"SEMI", 249>>, <<"error", 107>>},
  {<<"COMMA", 251>>},
  {<<"AND_EQUALS", 164>>, <<"DECR_NO_LT", 253>>, <<"DIVIDE_EQUALS", 157>>, <<"EQUALS", 155>>,
     <<"INCR_NO_LT", 252>>, <<"LSHIFT_EQUALS", 161>>, <<"MINUS_EQUALS", 160>>, <<"MOD_EQUALS",
     158>>, <<"OR_EQUALS", 166>>, <<"PLUS_EQUALS", 159>>, <<"RSHIFT_EQUALS", 162>>,
     <<"TIMES_EQUALS", 156>>, <<"URSHIFT_EQUALS", 163>>, <<"XOR_EQUALS", 165>>},
  {<<"CONDOP", 256>>, <<"LOR", 255>>},
  {<<"LBRACKET", 258>>, <<"LPAREN", 172>>, <<"PERIOD", 259>>},
  {<<"LAND", 260>>},
  {<<"LBRACKET", 261>>, <<"LPAREN", 172>>, <<"PERIOD", 262>>},
  {<<"OR", 266>>},
  {<<"XOR", 267>>},
  {<<"AND", 269>>},
  {<<"GET", 274>>, <<"ID", 47>>, <<"NUMBER_LITERAL", 74>>, <<"RBRACE", 270>>, <<"SET", 275>>,
     <<"STRING_LITERAL", 75>>},
  {<<"EQ", 280>>, <<"EQT", 282>>, <<"NE", 281>>, <<"NET", 283>>},
  {<<"GE", 286>>, <<"GT", 284>>, <<"IN", 289>>, <<"INSTANCEOF", 288>>, <<"LE", 287>>, <<"LT", 285>>},
  {<<"LSHIFT", 290>>, <<"RSHIFT", 291>>, <<"URSHIFT", 292>>},
  {<<"MINUS", 294>>, <<"PLUS", 293>>},
  {<<"DIVIDE", 296>>, <<"MOD", 297>>, <<"TIMES", 295>>},
  {<<"COMMA", 251>>, <<"SEMI", 301>>},
  {<<"CATCH", 304>>, <<"FINALLY", 305>>},
  {<<"DECR", 89>>, <<"DECR_NO_LT", 90>>, <<"DELETE", 84>>, <<"FALSE", 73>>, <<"FUNCTION", 134>>,
     <<"ID", 47>>, <<"INCR", 87>>, <<"INCR_NO_LT", 88>>, <<"LBRACE", 137>>, <<"LBRACKET", 69>>,
     <<"LNOT", 94>>, <<"LPAREN", 62>>, <<"MINUS", 92>>, <<"NEW", 127>>, <<"NOT", 93>>, <<"NULL",
     71>>, <<"NUMBER_LITERAL", 74>>, <<"PLUS", 91>>, <<"REGEX", 76>>, <<"RPAREN", 311>>,
     <<"STRING_LITERAL", 75>>, <<"THIS", 59>>, <<"TRUE", 72>>, <<"TYPEOF", 86>>, <<"VOID", 85>>},
  {<<"COMMA", 251>>, <<"RPAREN", 320>>},
  {<<"DECR", 89>>, <<"DECR_NO_LT", 90>>, <<"DELETE", 84>>, <<"FALSE", 73>>, <<"FUNCTION", 134>>,
     <<"ID", 47>>, <<"INCR", 87>>, <<"INCR_NO_LT", 88>>, <<"LBRACE", 137>>, <<"LBRACKET", 69>>,
     <<"LNOT", 94>>, <<"LPAREN", 62>>, <<"MINUS", 92>>, <<"NEW", 127>>, <<"NOT", 93>>, <<"NULL",
     71>>, <<"NUMBER_LITERAL", 74>>, <<"PLUS", 91>>, <<"RBRACKET", 322>>, <<"REGEX", 76>>,
     <<"STRING_LITERAL", 75>>, <<"THIS", 59>>, <<"TRUE", 72>>, <<"TYPEOF", 86>>, <<"VOID", 85>>},
  {<<"COMMA", 325>>, <<"RBRACKET", 324>>},
  {<<"COMMA", 326>>},
  {<<"DECR_NO_LT", 253>>, <<"INCR_NO_LT", 252>>},
  {<<"COMMA", 251>>, <<"RPAREN", 351>>},
  {<<"LPAREN", 352>>},
  {<<"COMMA", 251>>, <<"RPAREN", 353>>},
  {<<"SEMI", 354>>},
  {<<"AND_EQUALS", 164>>, <<"DECR_NO_LT", 253>>, <<"DIVIDE_EQUALS", 157>>, <<"EQUALS", 155>>,
     <<"IN", 359>>, <<"INCR_NO_LT", 252>>, <<"LSHIFT_EQUALS", 161>>, <<"MINUS_EQUALS", 160>>,
     <<"MOD_EQUALS", 158>>, <<"OR_EQUALS", 166>>, <<"PLUS_EQUALS", 159>>, <<"RSHIFT_EQUALS", 162>>,
     <<"TIMES_EQUALS", 156>>, <<"URSHIFT_EQUALS", 163>>, <<"XOR_EQUALS", 165>>},
  {<<"COMMA", 360>>},
  {<<"CONDOP", 362>>, <<"LOR", 361>>},
  {<<"LAND", 363>>},
  {<<"OR", 364>>},
  {<<"XOR", 365>>},
  {<<"AND", 366>>},
  {<<"EQ", 367>>, <<"EQT", 369>>, <<"NE", 368>>, <<"NET", 370>>},
  {<<"GE", 373>>, <<"GT", 371>>, <<"INSTANCEOF", 375>>, <<"LE", 374>>, <<"LT", 372>>},
  {<<"LPAREN", 388>>},
  {<<"COMMA", 391>>, <<"RBRACE", 390>>},
  {<<"COLON", 392>>},
  {<<"ID", 47>>, <<"NUMBER_LITERAL", 74>>, <<"STRING_LITERAL", 75>>},
  {<<"COMMA", 251>>, <<"RPAREN", 413>>},
  {<<"COMMA", 251>>, <<"RPAREN", 414>>},
  {<<"FINALLY", 305>>},
  {<<"LPAREN", 416>>},
  {<<"COLON", 418>>},
  {<<"COMMA", 251>>, <<"RBRACKET", 419>>},
  {<<"COMMA", 421>>, <<"RPAREN", 420>>},
  {<<"COMMA", 251>>, <<"RBRACKET", 422>>},
  {<<"RPAREN", 424>>},
  {<<"COMMA", 425>>},
  {<<"COMMA", 430>>, <<"SEMI", 431>>},
  {<<"IN", 432>>},
  {<<"EQUALS", 436>>},
  {<<"COLON", 456>>},
  {<<"COMMA", 251>>, <<"RBRACKET", 457>>},
  {<<"COMMA", 251>>, <<"RBRACKET", 458>>},
  {<<"GET", 274>>, <<"ID", 47>>, <<"NUMBER_LITERAL", 74>>, <<"RBRACE", 460>>, <<"SET", 275>>,
     <<"STRING_LITERAL", 75>>},
  {<<"LPAREN", 463>>},
  {<<"LPAREN", 464>>},
  {<<"LBRACE", 467>>},
  {<<"DECR", 89>>, <<"DECR_NO_LT", 90>>, <<"DELETE", 84>>, <<"FALSE", 73>>, <<"FUNCTION", 134>>,
     <<"ID", 47>>, <<"INCR", 87>>, <<"INCR_NO_LT", 88>>, <<"LBRACE", 137>>, <<"LBRACKET", 69>>,
     <<"LNOT", 94>>, <<"LPAREN", 62>>, <<"MINUS", 92>>, <<"NEW", 127>>, <<"NOT", 93>>, <<"NULL",
     71>>, <<"NUMBER_LITERAL", 74>>, <<"PLUS", 91>>, <<"RBRACKET", 471>>, <<"REGEX", 76>>,
     <<"STRING_LITERAL", 75>>, <<"THIS", 59>>, <<"TRUE", 72>>, <<"TYPEOF", 86>>, <<"VOID", 85>>},
  {<<"LBRACE", 473>>},
  {<<"ELSE", 475>>},
  {<<"COMMA", 251>>, <<"RPAREN", 476>>},
  {<<"SEMI", 477>>},
  {<<"COMMA", 251>>, <<"RPAREN", 482>>},
  {<<"COLON", 483>>},
  {<<"RPAREN", 485>>},
  {<<"RPAREN", 486>>},
  {<<"CASE", 493>>},
  {<<"RPAREN", 494>>},
  {<<"SEMI", 498>>},
  {<<"SEMI", 500>>},
  {<<"COMMA", 251>>, <<"RPAREN", 501>>},
  {<<"LBRACE", 504>>},
  {<<"LBRACE", 505>>},
  {<<"RPAREN", 506>>},
  {<<"DEFAULT", 509>>, <<"RBRACE", 507>>},
  {<<"RBRACE", 513>>},
  {<<"RPAREN", 514>>},
  {<<"LBRACE", 519>>},
  {<<"COLON", 521>>},
  {<<"COLON", 522>>, <<"COMMA", 251>>},
  {<<"RPAREN", 524>>},
  {<<"RBRACE", 525>>},
  {<<"RBRACE", 526>>},
  {<<"RBRACE", 528>>},
  {<<"RBRACE", 532>>}
  >>

States ==
  <<
  <<21, 1, 1>>, <<303, 1, 0>>, <<297, 1, 0>>, <<17, 2, 0>>, <<18, 2, 1>>, <<298, 3, 0>>, <<300, 3,
     0>>, <<301, 3, 0>>, <<302, 3, 0>>, <<233, 4, 0>>, <<234, 4, 0>>, <<235, 4, 0>>, <<236, 4, 0>>,
     <<237, 4, 0>>, <<238, 4, 0>>, <<239, 4, 0>>, <<240, 4, 0>>, <<241, 4, 0>>, <<242, 4, 0>>,
     <<243, 4, 0>>, <<244, 4, 0>>, <<245, 4, 0>>, <<246, 4, 0>>, <<247, 4, 0>>, <<0, 0, 2>>, <<23,
     3, 0>>, <<24, 3, 0>>, <<21, 5, 3>>, <<0, 0, 2>>, <<261, 4, 0>>, <<0, 0, 4>>, <<0, 0, 5>>, <<0,
     0, 3>>, <<0, 0, 6>>, <<0, 0, 7>>, <<21, 6, 2>>, <<21, 6, 2>>, <<21, 7, 8>>, <<0, 0, 9>>, <<43,
     8, 10>>, <<0, 0, 11>>, <<0, 0, 8>>, <<0, 0, 12>>, <<0, 0, 13>>, <<25, 3, 0>>, <<26, 3, 0>>,
     <<231, 9, 0>>, <<28, 10, 0>>, <<213, 9, 0>>, <<98, 11, 14>>, <<207, 9, 15>>, <<93, 12, 0>>,
     <<94, 12, 16>>, <<201, 13, 17>>, <<77, 12, 18>>, <<0, 0, 19>>, <<195, 14, 20>>, <<71, 8, 0>>,
     <<189, 15, 21>>, <<42, 10, 0>>, <<44, 10, 0>>, <<45, 10, 0>>, <<0, 0, 8>>, <<183, 16, 22>>,
     <<29, 10, 0>>, <<30, 10, 0>>, <<31, 10, 0>>, <<32, 10, 0>>, <<33, 10, 0>>, <<21, 17, 23>>,
     <<177, 18, 24>>, <<34, 10, 0>>, <<35, 10, 0>>, <<36, 10, 0>>, <<37, 10, 0>>, <<38, 10, 0>>,
     <<39, 10, 0>>, <<168, 19, 25>>, <<151, 20, 26>>, <<134, 21, 27>>, <<127, 22, 28>>, <<120, 11,
     0>>, <<114, 11, 0>>, <<115, 11, 0>>, <<0, 0, 8>>, <<0, 0, 8>>, <<0, 0, 8>>, <<0, 0, 8>>, <<0,
     0, 8>>, <<0, 0, 8>>, <<0, 0, 8>>, <<0, 0, 8>>, <<0, 0, 8>>, <<0, 0, 8>>, <<0, 0, 8>>, <<299, 3,
     0>>, <<0, 0, 29>>, <<0, 0, 30>>, <<19, 23, 0>>, <<20, 23, 3>>, <<249, 24, 0>>, <<0, 0, 31>>,
     <<253, 9, 0>>, <<21, 9, 32>>, <<0, 0, 8>>, <<262, 4, 0>>, <<263, 4, 0>>, <<22, 4, 0>>, <<0, 0,
     8>>, <<0, 0, 33>>, <<0, 0, 8>>, <<21, 6, 34>>, <<0, 0, 35>>, <<11, 25, 0>>, <<12, 25, 0>>, <<0,
     0, 36>>, <<0, 0, 37>>, <<7, 26, 0>>, <<8, 26, 38>>, <<227, 27, 0>>, <<209, 28, 0>>, <<95, 29,
     39>>, <<203, 28, 40>>, <<91, 30, 0>>, <<92, 30, 41>>, <<197, 31, 42>>, <<75, 30, 43>>, <<0, 0,
     19>>, <<191, 32, 44>>, <<66, 10, 0>>, <<67, 10, 0>>, <<185, 33, 45>>, <<40, 10, 0>>, <<41, 10,
     0>>, <<21, 34, 2>>, <<179, 35, 46>>, <<43, 10, 0>>, <<0, 0, 47>>, <<173, 36, 48>>, <<158, 37,
     49>>, <<138, 38, 50>>, <<130, 39, 51>>, <<124, 40, 52>>, <<116, 29, 0>>, <<112, 29, 0>>, <<113,
     29, 0>>, <<0, 0, 8>>, <<0, 0, 3>>, <<0, 0, 8>>, <<0, 0, 53>>, <<0, 0, 54>>, <<291, 4, 0>>,
     <<99, 11, 0>>, <<100, 11, 0>>, <<0, 0, 8>>, <<215, 41, 0>>, <<216, 41, 0>>, <<217, 41, 0>>,
     <<218, 41, 0>>, <<219, 41, 0>>, <<220, 41, 0>>, <<221, 41, 0>>, <<222, 41, 0>>, <<223, 41, 0>>,
     <<224, 41, 0>>, <<225, 41, 0>>, <<226, 41, 0>>, <<0, 0, 8>>, <<0, 0, 8>>, <<84, 8, 0>>, <<0, 0,
     8>>, <<0, 0, 2>>, <<0, 0, 55>>, <<0, 0, 8>>, <<0, 0, 8>>, <<0, 0, 2>>, <<83, 8, 0>>, <<75, 12,
     43>>, <<78, 12, 0>>, <<0, 0, 8>>, <<0, 0, 8>>, <<0, 0, 56>>, <<0, 0, 8>>, <<0, 0, 57>>, <<0, 0,
     58>>, <<3, 17, 0>>, <<4, 17, 59>>, <<52, 42, 0>>, <<0, 0, 8>>, <<0, 0, 8>>, <<0, 0, 8>>, <<0,
     0, 8>>, <<0, 0, 8>>, <<0, 0, 8>>, <<0, 0, 8>>, <<0, 0, 8>>, <<0, 0, 8>>, <<0, 0, 8>>, <<0, 0,
     8>>, <<0, 0, 8>>, <<0, 0, 8>>, <<0, 0, 8>>, <<0, 0, 8>>, <<0, 0, 8>>, <<0, 0, 8>>, <<0, 0, 8>>,
     <<101, 29, 0>>, <<95, 29, 60>>, <<102, 29, 0>>, <<103, 29, 0>>, <<104, 29, 0>>, <<105, 29, 0>>,
     <<106, 29, 0>>, <<107, 29, 0>>, <<108, 29, 0>>, <<109, 29, 0>>, <<110, 29, 0>>, <<111, 29, 0>>,
     <<21, 43, 2>>, <<248, 44, 0>>, <<250, 24, 0>>, <<251, 4, 0>>, <<252, 4, 0>>, <<0, 0, 2>>,
     <<257, 9, 0>>, <<15, 9, 0>>, <<16, 9, 0>>, <<0, 0, 8>>, <<232, 9, 0>>, <<0, 0, 61>>, <<0, 0,
     62>>, <<0, 0, 63>>, <<0, 0, 64>>, <<0, 0, 2>>, <<95, 45, 65>>, <<5, 6, 0>>, <<6, 6, 66>>,
     <<229, 46, 0>>, <<211, 47, 0>>, <<205, 47, 67>>, <<199, 48, 68>>, <<193, 49, 69>>, <<187, 50,
     70>>, <<181, 51, 71>>, <<175, 52, 72>>, <<163, 53, 73>>, <<145, 20, 50>>, <<272, 4, 0>>, <<273,
     4, 0>>, <<274, 4, 0>>, <<275, 4, 0>>, <<0, 0, 8>>, <<96, 29, 0>>, <<97, 29, 0>>, <<0, 0, 8>>,
     <<0, 0, 8>>, <<0, 0, 8>>, <<80, 10, 0>>, <<0, 0, 8>>, <<0, 0, 2>>, <<0, 0, 8>>, <<0, 0, 8>>,
     <<0, 0, 2>>, <<79, 10, 0>>, <<75, 30, 43>>, <<76, 30, 0>>, <<0, 0, 8>>, <<0, 0, 8>>, <<0, 0,
     74>>, <<0, 0, 8>>, <<54, 10, 0>>, <<0, 0, 75>>, <<57, 54, 0>>, <<0, 0, 76>>, <<0, 0, 77>>, <<0,
     0, 77>>, <<62, 55, 0>>, <<63, 55, 0>>, <<64, 55, 0>>, <<27, 10, 0>>, <<0, 0, 8>>, <<0, 0, 8>>,
     <<0, 0, 8>>, <<0, 0, 8>>, <<0, 0, 8>>, <<0, 0, 8>>, <<0, 0, 8>>, <<0, 0, 8>>, <<0, 0, 8>>, <<0,
     0, 8>>, <<0, 0, 8>>, <<0, 0, 8>>, <<0, 0, 8>>, <<0, 0, 8>>, <<0, 0, 8>>, <<0, 0, 8>>, <<0, 0,
     8>>, <<0, 0, 8>>, <<0, 0, 78>>, <<284, 4, 0>>, <<0, 0, 79>>, <<285, 4, 0>>, <<286, 4, 80>>,
     <<287, 4, 0>>, <<0, 0, 81>>, <<0, 0, 12>>, <<214, 9, 0>>, <<202, 13, 68>>, <<0, 0, 82>>, <<0,
     0, 83>>, <<86, 8, 0>>, <<87, 10, 0>>, <<0, 0, 84>>, <<89, 56, 0>>, <<196, 14, 69>>, <<0, 0,
     85>>, <<73, 8, 0>>, <<74, 8, 0>>, <<190, 15, 70>>, <<184, 16, 71>>, <<46, 10, 0>>, <<178, 18,
     72>>, <<47, 10, 0>>, <<50, 57, 0>>, <<48, 10, 0>>, <<21, 17, 23>>, <<53, 42, 0>>, <<169, 19,
     73>>, <<170, 19, 73>>, <<171, 19, 73>>, <<172, 19, 73>>, <<152, 20, 50>>, <<153, 20, 50>>,
     <<154, 20, 50>>, <<155, 20, 50>>, <<156, 20, 50>>, <<157, 20, 50>>, <<135, 21, 51>>, <<136, 21,
     51>>, <<137, 21, 51>>, <<128, 22, 52>>, <<129, 22, 52>>, <<121, 11, 0>>, <<122, 11, 0>>, <<123,
     11, 0>>, <<0, 0, 86>>, <<9, 43, 0>>, <<10, 43, 87>>, <<294, 56, 0>>, <<254, 9, 0>>, <<259, 9,
     0>>, <<0, 0, 3>>, <<0, 0, 8>>, <<0, 0, 3>>, <<21, 6, 8>>, <<0, 0, 88>>, <<255, 46, 89>>, <<21,
     47, 90>>, <<0, 0, 8>>, <<0, 0, 8>>, <<0, 0, 8>>, <<0, 0, 8>>, <<0, 0, 8>>, <<0, 0, 8>>, <<0, 0,
     8>>, <<0, 0, 8>>, <<0, 0, 8>>, <<0, 0, 8>>, <<0, 0, 8>>, <<0, 0, 8>>, <<0, 0, 8>>, <<0, 0, 8>>,
     <<0, 0, 8>>, <<0, 0, 8>>, <<0, 0, 8>>, <<0, 0, 8>>, <<228, 27, 0>>, <<210, 28, 0>>, <<198, 31,
     42>>, <<0, 0, 91>>, <<0, 0, 92>>, <<82, 10, 0>>, <<192, 32, 44>>, <<0, 0, 93>>, <<69, 10, 0>>,
     <<70, 10, 0>>, <<186, 33, 45>>, <<180, 35, 46>>, <<21, 43, 2>>, <<174, 36, 48>>, <<55, 10, 0>>,
     <<0, 0, 94>>, <<0, 0, 8>>, <<0, 0, 95>>, <<0, 0, 96>>, <<159, 37, 49>>, <<160, 37, 49>>, <<161,
     37, 49>>, <<162, 37, 49>>, <<139, 38, 50>>, <<140, 38, 50>>, <<141, 38, 50>>, <<142, 38, 50>>,
     <<143, 38, 50>>, <<144, 38, 50>>, <<131, 39, 51>>, <<132, 39, 51>>, <<133, 39, 51>>, <<125, 40,
     52>>, <<126, 40, 52>>, <<117, 29, 0>>, <<118, 29, 0>>, <<119, 29, 0>>, <<0, 0, 3>>, <<0, 0,
     97>>, <<288, 4, 0>>, <<0, 0, 2>>, <<290, 4, 0>>, <<0, 0, 8>>, <<85, 8, 0>>, <<88, 10, 0>>, <<0,
     0, 8>>, <<72, 8, 0>>, <<0, 0, 98>>, <<0, 0, 99>>, <<0, 0, 2>>, <<264, 58, 100>>, <<0, 0, 101>>,
     <<267, 4, 0>>, <<0, 0, 102>>, <<0, 0, 2>>, <<21, 6, 8>>, <<0, 0, 8>>, <<258, 47, 0>>, <<13, 47,
     0>>, <<14, 47, 0>>, <<0, 0, 8>>, <<212, 47, 0>>, <<95, 59, 39>>, <<0, 0, 103>>, <<230, 46, 0>>,
     <<200, 48, 68>>, <<0, 0, 104>>, <<194, 49, 69>>, <<188, 50, 70>>, <<182, 51, 71>>, <<176, 52,
     72>>, <<164, 53, 73>>, <<165, 53, 73>>, <<166, 53, 73>>, <<167, 53, 73>>, <<146, 20, 50>>,
     <<147, 20, 50>>, <<148, 20, 50>>, <<149, 20, 50>>, <<150, 20, 50>>, <<0, 0, 8>>, <<81, 10, 0>>,
     <<68, 10, 0>>, <<0, 0, 105>>, <<56, 10, 0>>, <<58, 54, 0>>, <<59, 54, 0>>, <<0, 0, 106>>, <<0,
     0, 2>>, <<276, 4, 0>>, <<277, 4, 0>>, <<21, 60, 107>>, <<0, 0, 108>>, <<208, 9, 0>>, <<90, 56,
     0>>, <<49, 10, 0>>, <<51, 57, 0>>, <<21, 5, 1>>, <<295, 56, 0>>, <<0, 0, 3>>, <<0, 0, 109>>,
     <<21, 43, 8>>, <<256, 46, 0>>, <<0, 0, 110>>, <<0, 0, 111>>, <<260, 47, 0>>, <<0, 0, 3>>, <<0,
     0, 8>>, <<204, 28, 0>>, <<0, 0, 112>>, <<0, 0, 113>>, <<0, 0, 114>>, <<65, 43, 0>>, <<0, 0,
     115>>, <<1, 60, 0>>, <<2, 60, 107>>, <<280, 23, 0>>, <<0, 0, 8>>, <<0, 0, 12>>, <<0, 0, 116>>,
     <<296, 5, 0>>, <<265, 4, 0>>, <<266, 4, 0>>, <<0, 0, 117>>, <<21, 43, 8>>, <<0, 0, 3>>, <<270,
     4, 0>>, <<206, 47, 0>>, <<21, 5, 1>>, <<21, 5, 1>>, <<0, 0, 118>>, <<278, 4, 0>>, <<21, 5,
     107>>, <<0, 0, 119>>, <<281, 23, 0>>, <<0, 0, 120>>, <<289, 61, 0>>, <<292, 3, 0>>, <<0, 0,
     3>>, <<0, 0, 121>>, <<271, 4, 0>>, <<0, 0, 122>>, <<0, 0, 123>>, <<21, 5, 1>>, <<0, 0, 124>>,
     <<21, 62, 3>>, <<21, 23, 3>>, <<268, 4, 0>>, <<0, 0, 3>>, <<293, 10, 0>>, <<60, 54, 0>>, <<0,
     0, 125>>, <<279, 4, 0>>, <<283, 62, 0>>, <<282, 23, 0>>, <<269, 4, 0>>, <<61, 54, 0>>
  >>

GotoDefault ==
  [AdditiveExpression |-> 141, AdditiveExpressionNoBF |-> 79, ArgumentList |-> 312, Arguments |->
     169, ArrayLiteral |-> 61, AssignmentExpression |-> 119, AssignmentExpressionNoBF |-> 46,
     AssignmentExpressionNoIn |-> 237, AssignmentOperator |-> 358, BitwiseANDExpression |-> 135,
     BitwiseANDExpressionNoBF |-> 63, BitwiseANDExpressionNoIn |-> 243, BitwiseORExpression |-> 128,
     BitwiseORExpressionNoBF |-> 56, BitwiseORExpressionNoIn |-> 241, BitwiseXORExpression |-> 131,
     BitwiseXORExpressionNoBF |-> 58, BitwiseXORExpressionNoIn |-> 242, Block |-> 9, BooleanLiteral
     |-> 65, BreakStatement |-> 16, CallExpression |-> 124, CallExpressionNoBF |-> 52, CaseBlock |->
     466, CaseClause |-> 492, CaseClauses |-> 491, CaseClauses_opt |-> 489, Catch |-> 302, Comment
     |-> 8, ConditionalExpression |-> 120, ConditionalExpressionNoBF |-> 48,
     ConditionalExpressionNoIn |-> 238, ContinueStatement |-> 15, DebuggerStatement |-> 23,
     DefaultClause |-> 508, ElementList |-> 184, Elision |-> 186, Elision_opt |-> 183,
     EmptyStatement |-> 11, EqualityExpression |-> 138, EqualityExpressionNoBF |-> 70,
     EqualityExpressionNoIn |-> 244, Expression |-> 118, ExpressionNoBF |-> 30, ExpressionNoIn |->
     236, ExpressionNoIn_opt |-> 232, ExpressionStatement |-> 12, Expression_opt |-> 116, Finally
     |-> 303, FormalParameterList |-> 347, FormalParameterList_opt |-> 345, FunctionBody |-> 495,
     FunctionDeclaration |-> 7, FunctionExpression |-> 130, Identifier |-> 136, IdentifierName |->
     276, Identifier_opt |-> 112, IfStatement |-> 13, Initialiser |-> 226, InitialiserNoIn |-> 435,
     InitialiserNoIn_opt |-> 433, Initialiser_opt |-> 224, IterationStatement |-> 14,
     LabelledStatement |-> 19, LeftHandSideExpression |-> 207, LeftHandSideExpressionNoBF |-> 49,
     Literal |-> 60, LogicalANDExpression |-> 125, LogicalANDExpressionNoBF |-> 53,
     LogicalANDExpressionNoIn |-> 240, LogicalORExpression |-> 122, LogicalORExpressionNoBF |-> 50,
     LogicalORExpressionNoIn |-> 239, MemberExpression |-> 126, MemberExpressionNoBF |-> 54,
     MultiLineComment |-> 26, MultiplicativeExpression |-> 142, MultiplicativeExpressionNoBF |-> 80,
     NewExpression |-> 123, NewExpressionNoBF |-> 51, NullLiteral |-> 64, NumericLiteral |-> 66,
     ObjectLiteral |-> 133, PostfixExpression |-> 144, PostfixExpressionNoBF |-> 82,
     PrimaryExpression |-> 129, PrimaryExpressionNoObj |-> 132, Program |-> 1, PropertyAssignment
     |-> 272, PropertyName |-> 273, PropertyNameAndValueList |-> 271, PropertySetParameterList |->
     487, RegularExpressionLiteral |-> 68, RelationalExpression |-> 139, RelationalExpressionNoBF
     |-> 77, RelationalExpressionNoIn |-> 245, ReturnStatement |-> 17, ShiftExpression |-> 140,
     ShiftExpressionNoBF |-> 78, SingleLineComment |-> 25, SourceElement |-> 5, SourceElements |->
     4, SourceElements_opt |-> 496, Statement |-> 6, StatementList |-> 99, StatementList_opt |-> 97,
     StringLiteral |-> 67, SwitchStatement |-> 20, ThrowStatement |-> 21, TryStatement |-> 22,
     UnaryExpression |-> 143, UnaryExpressionCommon |-> 145, UnaryExpressionNoBF |-> 81,
     VariableDeclaration |-> 102, VariableDeclarationList |-> 101, VariableDeclarationListNoIn |->
     355, VariableDeclarationNoIn |-> 356, VariableStatement |-> 10, WithStatement |-> 18,
     auto_semicolon |-> 106, empty |-> 3]

GotoExcept ==
  {<<0, "Identifier", 39>>, <<0, "PrimaryExpressionNoObj", 57>>, <<0, "SourceElements_opt", 2>>,
     <<0, "UnaryExpressionCommon", 83>>, <<4, "Identifier", 39>>, <<4, "PrimaryExpressionNoObj",
     57>>, <<4, "SourceElement", 95>>, <<4, "UnaryExpressionCommon", 83>>, <<24, "Identifier", 96>>,
     <<27, "Identifier", 39>>, <<27, "PrimaryExpressionNoObj", 57>>, <<27, "Statement", 100>>, <<27,
     "UnaryExpressionCommon", 83>>, <<27, "empty", 98>>, <<28, "Identifier", 103>>, <<32,
     "Identifier", 39>>, <<32, "PrimaryExpressionNoObj", 57>>, <<32, "Statement", 109>>, <<32,
     "UnaryExpressionCommon", 83>>, <<35, "Identifier", 114>>, <<35, "empty", 113>>, <<36,
     "Identifier", 114>>, <<36, "Identifier_opt", 115>>, <<36, "empty", 113>>, <<37,
     "LeftHandSideExpression", 121>>, <<37, "empty", 117>>, <<41, "Expression", 149>>, <<41,
     "LeftHandSideExpression", 121>>, <<42, "Block", 150>>, <<49, "AssignmentOperator", 154>>, <<54,
     "Arguments", 176>>, <<55, "MemberExpression", 177>>, <<55, "NewExpression", 178>>, <<62,
     "Expression", 181>>, <<62, "LeftHandSideExpression", 121>>, <<69, "empty", 185>>, <<84,
     "UnaryExpression", 206>>, <<85, "UnaryExpression", 208>>, <<86, "UnaryExpression", 209>>, <<87,
     "UnaryExpression", 210>>, <<88, "UnaryExpression", 211>>, <<89, "UnaryExpression", 212>>, <<90,
     "UnaryExpression", 213>>, <<91, "UnaryExpression", 214>>, <<92, "UnaryExpression", 215>>, <<93,
     "UnaryExpression", 216>>, <<94, "UnaryExpression", 217>>, <<99, "Identifier", 39>>, <<99,
     "PrimaryExpressionNoObj", 57>>, <<99, "Statement", 220>>, <<99, "UnaryExpressionCommon", 83>>,
     <<101, "auto_semicolon", 222>>, <<103, "empty", 225>>, <<104, "AssignmentExpression", 228>>,
     <<104, "LeftHandSideExpression", 121>>, <<108, "Expression", 229>>, <<108,
     "LeftHandSideExpression", 121>>, <<110, "Expression", 231>>, <<110, "LeftHandSideExpression",
     121>>, <<111, "LeftHandSideExpression", 234>>, <<111, "ShiftExpression", 246>>, <<111, "empty",
     235>>, <<116, "auto_semicolon", 250>>, <<121, "AssignmentOperator", 254>>, <<124, "Arguments",
     257>>, <<126, "Arguments", 263>>, <<127, "MemberExpression", 264>>, <<127, "NewExpression",
     265>>, <<134, "Identifier", 114>>, <<134, "Identifier_opt", 268>>, <<134, "empty", 113>>,
     <<137, "Identifier", 279>>, <<137, "NumericLiteral", 278>>, <<137, "StringLiteral", 277>>,
     <<146, "Expression", 298>>, <<146, "LeftHandSideExpression", 121>>, <<147, "Identifier", 39>>,
     <<147, "PrimaryExpressionNoObj", 57>>, <<147, "Statement", 299>>, <<147,
     "UnaryExpressionCommon", 83>>, <<148, "Expression", 300>>, <<148, "LeftHandSideExpression",
     121>>, <<154, "AssignmentExpression", 306>>, <<154, "LeftHandSideExpression", 121>>, <<167,
     "LogicalANDExpressionNoIn", 307>>, <<167, "ShiftExpression", 246>>, <<168,
     "AssignmentExpression", 308>>, <<168, "LeftHandSideExpression", 121>>, <<170, "Expression",
     309>>, <<170, "LeftHandSideExpression", 121>>, <<171, "Identifier", 279>>, <<171,
     "IdentifierName", 310>>, <<172, "AssignmentExpression", 313>>, <<172, "LeftHandSideExpression",
     121>>, <<173, "BitwiseORExpressionNoIn", 314>>, <<173, "ShiftExpression", 246>>, <<174,
     "Expression", 315>>, <<174, "LeftHandSideExpression", 121>>, <<175, "Identifier", 279>>, <<175,
     "IdentifierName", 316>>, <<177, "Arguments", 317>>, <<179, "BitwiseXORExpressionNoIn", 318>>,
     <<179, "ShiftExpression", 246>>, <<180, "BitwiseANDExpressionNoIn", 319>>, <<180,
     "ShiftExpression", 246>>, <<182, "EqualityExpressionNoIn", 321>>, <<182, "ShiftExpression",
     246>>, <<183, "AssignmentExpression", 323>>, <<183, "LeftHandSideExpression", 121>>, <<188,
     "RelationalExpressionNoIn", 327>>, <<188, "ShiftExpression", 246>>, <<189,
     "RelationalExpressionNoIn", 328>>, <<189, "ShiftExpression", 246>>, <<190,
     "RelationalExpressionNoIn", 329>>, <<190, "ShiftExpression", 246>>, <<191,
     "RelationalExpressionNoIn", 330>>, <<191, "ShiftExpression", 246>>, <<192, "ShiftExpression",
     331>>, <<193, "ShiftExpression", 332>>, <<194, "ShiftExpression", 333>>, <<195,
     "ShiftExpression", 334>>, <<196, "ShiftExpression", 335>>, <<197, "ShiftExpression", 336>>,
     <<198, "AdditiveExpression", 337>>, <<199, "AdditiveExpression", 338>>, <<200,
     "AdditiveExpression", 339>>, <<201, "MultiplicativeExpression", 340>>, <<202,
     "MultiplicativeExpression", 341>>, <<203, "UnaryExpression", 342>>, <<204, "UnaryExpression",
     343>>, <<205, "UnaryExpression", 344>>, <<218, "Identifier", 348>>, <<218, "empty", 346>>,
     <<223, "Identifier", 103>>, <<223, "VariableDeclaration", 349>>, <<227, "AssignmentExpression",
     350>>, <<227, "LeftHandSideExpression", 121>>, <<233, "Identifier", 357>>, <<251,
     "AssignmentExpression", 376>>, <<251, "LeftHandSideExpression", 121>>, <<254,
     "AssignmentExpression", 377>>, <<254, "LeftHandSideExpression", 121>>, <<255,
     "LogicalANDExpression", 378>>, <<256, "AssignmentExpression", 379>>, <<256,
     "LeftHandSideExpression", 121>>, <<258, "Expression", 380>>, <<258, "LeftHandSideExpression",
     121>>, <<259, "Identifier", 279>>, <<259, "IdentifierName", 381>>, <<260,
     "BitwiseORExpression", 382>>, <<261, "Expression", 383>>, <<261, "LeftHandSideExpression",
     121>>, <<262, "Identifier", 279>>, <<262, "IdentifierName", 384>>, <<264, "Arguments", 385>>,
     <<266, "BitwiseXORExpression", 386>>, <<267, "BitwiseANDExpression", 387>>, <<269,
     "EqualityExpression", 389>>, <<274, "Identifier", 279>>, <<274, "NumericLiteral", 278>>, <<274,
     "PropertyName", 393>>, <<274, "StringLiteral", 277>>, <<275, "Identifier", 279>>, <<275,
     "NumericLiteral", 278>>, <<275, "PropertyName", 394>>, <<275, "StringLiteral", 277>>, <<280,
     "RelationalExpression", 395>>, <<281, "RelationalExpression", 396>>, <<282,
     "RelationalExpression", 397>>, <<283, "RelationalExpression", 398>>, <<284, "ShiftExpression",
     399>>, <<285, "ShiftExpression", 400>>, <<286, "ShiftExpression", 401>>, <<287,
     "ShiftExpression", 402>>, <<288, "ShiftExpression", 403>>, <<289, "ShiftExpression", 404>>,
     <<290, "AdditiveExpression", 405>>, <<291, "AdditiveExpression", 406>>, <<292,
     "AdditiveExpression", 407>>, <<293, "MultiplicativeExpression", 408>>, <<294,
     "MultiplicativeExpression", 409>>, <<295, "UnaryExpression", 410>>, <<296, "UnaryExpression",
     411>>, <<297, "UnaryExpression", 412>>, <<302, "Finally", 415>>, <<305, "Block", 417>>, <<325,
     "Elision_opt", 423>>, <<325, "empty", 185>>, <<351, "Identifier", 39>>, <<351,
     "PrimaryExpressionNoObj", 57>>, <<351, "Statement", 426>>, <<351, "UnaryExpressionCommon",
     83>>, <<352, "Expression", 427>>, <<352, "LeftHandSideExpression", 121>>, <<353, "Identifier",
     39>>, <<353, "PrimaryExpressionNoObj", 57>>, <<353, "Statement", 428>>, <<353,
     "UnaryExpressionCommon", 83>>, <<354, "Expression_opt", 429>>, <<354, "LeftHandSideExpression",
     121>>, <<354, "empty", 117>>, <<357, "empty", 434>>, <<358, "AssignmentExpressionNoIn", 437>>,
     <<358, "LeftHandSideExpression", 438>>, <<358, "ShiftExpression", 246>>, <<359, "Expression",
     439>>, <<359, "LeftHandSideExpression", 121>>, <<360, "AssignmentExpressionNoIn", 440>>, <<360,
     "LeftHandSideExpression", 438>>, <<360, "ShiftExpression", 246>>, <<361,
     "LogicalANDExpressionNoIn", 441>>, <<361, "ShiftExpression", 246>>, <<362,
     "AssignmentExpression", 442>>, <<362, "LeftHandSideExpression", 121>>, <<363,
     "BitwiseORExpressionNoIn", 443>>, <<363, "ShiftExpression", 246>>, <<364,
     "BitwiseXORExpressionNoIn", 444>>, <<364, "ShiftExpression", 246>>, <<365,
     "BitwiseANDExpressionNoIn", 445>>, <<365, "ShiftExpression", 246>>, <<366,
     "EqualityExpressionNoIn", 446>>, <<366, "ShiftExpression", 246>>, <<367,
     "RelationalExpressionNoIn", 447>>, <<367, "ShiftExpression", 246>>, <<368,
     "RelationalExpressionNoIn", 448>>, <<368, "ShiftExpression", 246>>, <<369,
     "RelationalExpressionNoIn", 449>>, <<369, "ShiftExpression", 246>>, <<370,
     "RelationalExpressionNoIn", 450>>, <<370, "ShiftExpression", 246>>, <<371, "ShiftExpression",
     451>>, <<372, "ShiftExpression", 452>>, <<373, "ShiftExpression", 453>>, <<374,
     "ShiftExpression", 454>>, <<375, "ShiftExpression", 455>>, <<388, "FormalParameterList_opt",
     459>>, <<388, "Identifier", 348>>, <<388, "empty", 346>>, <<391, "Identifier", 279>>, <<391,
     "NumericLiteral", 278>>, <<391, "PropertyAssignment", 461>>, <<391, "StringLiteral", 277>>,
     <<392, "AssignmentExpression", 462>>, <<392, "LeftHandSideExpression", 121>>, <<413,
     "Identifier", 39>>, <<413, "PrimaryExpressionNoObj", 57>>, <<413, "Statement", 465>>, <<413,
     "UnaryExpressionCommon", 83>>, <<416, "Identifier", 468>>, <<418, "AssignmentExpression",
     469>>, <<418, "LeftHandSideExpression", 121>>, <<421, "AssignmentExpression", 470>>, <<421,
     "LeftHandSideExpression", 121>>, <<423, "AssignmentExpression", 472>>, <<423,
     "LeftHandSideExpression", 121>>, <<425, "Identifier", 474>>, <<430, "Identifier", 357>>, <<430,
     "VariableDeclarationNoIn", 478>>, <<431, "Expression_opt", 479>>, <<431,
     "LeftHandSideExpression", 121>>, <<431, "empty", 117>>, <<432, "Expression", 480>>, <<432,
     "LeftHandSideExpression", 121>>, <<436, "AssignmentExpressionNoIn", 481>>, <<436,
     "LeftHandSideExpression", 438>>, <<436, "ShiftExpression", 246>>, <<456,
     "AssignmentExpression", 484>>, <<456, "LeftHandSideExpression", 121>>, <<464, "Identifier",
     488>>, <<467, "empty", 490>>, <<473, "Identifier", 39>>, <<473, "PrimaryExpressionNoObj", 57>>,
     <<473, "UnaryExpressionCommon", 83>>, <<475, "Identifier", 39>>, <<475,
     "PrimaryExpressionNoObj", 57>>, <<475, "Statement", 497>>, <<475, "UnaryExpressionCommon",
     83>>, <<477, "Expression_opt", 499>>, <<477, "LeftHandSideExpression", 121>>, <<477, "empty",
     117>>, <<482, "Identifier", 39>>, <<482, "PrimaryExpressionNoObj", 57>>, <<482, "Statement",
     502>>, <<482, "UnaryExpressionCommon", 83>>, <<483, "AssignmentExpressionNoIn", 503>>, <<483,
     "LeftHandSideExpression", 438>>, <<483, "ShiftExpression", 246>>, <<491, "CaseClause", 510>>,
     <<493, "Expression", 511>>, <<493, "LeftHandSideExpression", 121>>, <<494, "Block", 512>>,
     <<500, "Expression_opt", 515>>, <<500, "LeftHandSideExpression", 121>>, <<500, "empty", 117>>,
     <<501, "Identifier", 39>>, <<501, "PrimaryExpressionNoObj", 57>>, <<501, "Statement", 516>>,
     <<501, "UnaryExpressionCommon", 83>>, <<504, "FunctionBody", 517>>, <<504, "Identifier", 39>>,
     <<504, "PrimaryExpressionNoObj", 57>>, <<504, "UnaryExpressionCommon", 83>>, <<505,
     "FunctionBody", 518>>, <<505, "Identifier", 39>>, <<505, "PrimaryExpressionNoObj", 57>>, <<505,
     "UnaryExpressionCommon", 83>>, <<508, "CaseClauses_opt", 520>>, <<508, "empty", 490>>, <<514,
     "Identifier", 39>>, <<514, "PrimaryExpressionNoObj", 57>>, <<514, "Statement", 523>>, <<514,
     "UnaryExpressionCommon", 83>>, <<519, "FunctionBody", 527>>, <<519, "Identifier", 39>>, <<519,
     "PrimaryExpressionNoObj", 57>>, <<519, "UnaryExpressionCommon", 83>>, <<521, "Identifier",
     39>>, <<521, "PrimaryExpressionNoObj", 57>>, <<521, "Statement", 100>>, <<521,
     "StatementList_opt", 529>>, <<521, "UnaryExpressionCommon", 83>>, <<521, "empty", 98>>, <<522,
     "Identifier", 39>>, <<522, "PrimaryExpressionNoObj", 57>>, <<522, "Statement", 100>>, <<522,
     "StatementList_opt", 530>>, <<522, "UnaryExpressionCommon", 83>>, <<522, "empty", 98>>, <<524,
     "Identifier", 39>>, <<524, "PrimaryExpressionNoObj", 57>>, <<524, "Statement", 531>>, <<524,
     "UnaryExpressionCommon", 83>>}

(***************************************************************************)
(* The input texts.  Each family lists source texts, as atoms, with the    *)
(* value of the statement (or statements) that the text is written to      *)
(* mean; Parser.parse wraps them in ast.Program.                           *)
(***************************************************************************)
Id(name) == Identifier(Str(name))
Num(digits) == Number(Str(digits))
\* the value of a var statement: p_VariableStatement gives the list of its declarations
Var(name, expression) == List(<<VariableDeclaration(Id(name), expression)>>)

\* statements without their closing semicolon, to be followed by a line break
FirstStatements ==
  <<
    [src |-> <<"a">>,
     value |-> List(<<Id("a")>>)],
    [src |-> <<"var", " ", "p", " ", "=", " ", "1">>,
     value |-> List(<<Var("p", Num("1"))>>)],
    [src |-> <<"a", " ", "=", " ", "1">>,
     value |-> List(<<Assign(Id("a"), Str("="), Num("1"))>>)],
    [src |-> <<"return", " ", "a">>,
     value |-> List(<<Return(Id("a"))>>)]
  >>

\* statements whose first token cannot continue the statement of the line before
SecondStatements ==
  <<
    [src |-> <<"b">>,
     value |-> List(<<Id("b")>>)],
    [src |-> <<"var", " ", "q", " ", "=", " ", "2">>,
     value |-> List(<<Var("q", Num("2"))>>)],
    [src |-> <<"b", " ", "=", " ", "2">>,
     value |-> List(<<Assign(Id("b"), Str("="), Num("2"))>>)],
    [src |-> <<"+", "+", "b">>,
     value |-> List(<<UnaryOp(Str("++"), Id("b"), FALSE)>>)],
    [src |-> <<"-", "-", "b">>,
     value |-> List(<<UnaryOp(Str("--"), Id("b"), FALSE)>>)]
  >>

\* continue, break, return or throw, a line break, and more text
RestrictedPrograms ==
  <<
    [src |-> <<"return", "\n", "100">>,
     value |-> List(<<Return(None), Num("100")>>)],
    [src |-> <<"return", "\n", "a">>,
     value |-> List(<<Return(None), Id("a")>>)],
    [src |-> <<"break", "\n", "a">>,
     value |-> List(<<Break(None), Id("a")>>)],
    [src |-> <<"continue", "\n", "a">>,
     value |-> List(<<Continue(None), Id("a")>>)],
    [src |-> <<"return", "\n", "+", "+", "a">>,
     value |-> List(<<Return(None), UnaryOp(Str("++"), Id("a"), FALSE)>>)],
    [src |-> <<"return", "\n", "-", "-", "a">>,
     value |-> List(<<Return(None), UnaryOp(Str("--"), Id("a"), FALSE)>>)]
  >>

\* an expression, a line break, and ++ or -- before a second expression
LineBreakIncrements ==
  <<
    [src |-> <<"a", "\n", "+", "+", "b">>,
     value |-> List(<<Id("a"), UnaryOp(Str("++"), Id("b"), FALSE)>>)],
    [src |-> <<"a", "\n", "-", "-", "b">>,
     value |-> List(<<Id("a"), UnaryOp(Str("--"), Id("b"), FALSE)>>)],
    [src |-> <<"a", "\n", "+", "+", "b", ";">>,
     value |-> List(<<Id("a"), UnaryOp(Str("++"), Id("b"), FALSE)>>)]
  >>

\* ++ or -- right after a left-hand-side expression (tests: test_expression_statement,
\* test_iteration)
PostfixPrograms ==
  <<
    [src |-> <<"foo", "+", "+", ";">>,
     value |-> List(<<UnaryOp(Str("++"), Id("foo"), TRUE)>>)],
    [src |-> <<"foo", "-", "-", ";">>,
     value |-> List(<<UnaryOp(Str("--"), Id("foo"), TRUE)>>)],
    [src |-> <<"for", " ", "(", "i", " ", "=", " ", "0", ";", " ", "i", " ", "<", " ", "2",
              ";", " ", "i", "+", "+", ")", " ", "a", ";">>,
     value |-> List(<<For(Assign(Id("i"), Str("="), Num("0")), BinOp(Str("<"), Id("i"), Num("2")),
                          UnaryOp(Str("++"), Id("i"), TRUE), Id("a"))>>)]
  >>

\* a / after a complete operand
DivisionPrograms ==
  <<
    [src |-> <<"a", " ", "=", " ", "b", " ", "/", " ", "c", " ", "/", " ", "d">>,
     value |-> List(<<Assign(Id("a"), Str("="),
                             BinOp(Str("/"), BinOp(Str("/"), Id("b"), Id("c")), Id("d")))>>)],
    [src |-> <<"a", " ", "/", " ", "b">>,
     value |-> List(<<BinOp(Str("/"), Id("a"), Id("b"))>>)],
    [src |-> <<"a", " ", "/", "=", " ", "b", " ", "/", " ", "c", ";">>,
     value |-> List(<<Assign(Id("a"), Str("/="), BinOp(Str("/"), Id("b"), Id("c")))>>)]
  >>

\* a / where a primary expression starts: after =, at the start of a statement, after (
RegexPrograms ==
  <<
    [src |-> <<"a", " ", "=", " ", "/", "foo", "/", "g">>,
     value |-> List(<<Assign(Id("a"), Str("="), RegEx(Str("foo"), Str("g")))>>)],
    [src |-> <<"/", "foo", "/", "g", ";">>,
     value |-> List(<<RegEx(Str("foo"), Str("g"))>>)],
    [src |-> <<"a", " ", "=", " ", "(", "/", "foo", "/", "g", ")">>,
     value |-> List(<<Assign(Id("a"), Str("="), RegEx(Str("foo"), Str("g")))>>)]
  >>

\* a regular expression literal without its closing /
UnterminatedRegex ==
  { <<"/", "foo">>,
    <<"a", " ", "=", " ", "/", "foo">>,
    <<"/", "foo", "\n", "bar">> }

\* nested if statements without braces (tests: test_if)
DanglingElse ==
  <<
    [src |-> <<"if", " ", "(", "a", ")", " ", "if", " ", "(", "b", ")", " ", "c", ";", " ",
              "else", " ", "d", ";">>,
     value |-> List(<<If(Id("a"), If(Id("b"), Id("c"), Id("d")), None)>>)],
    [src |-> <<"if", " ", "(", "a", ")", " ", "if", " ", "(", "b", ")", " ", "c", ";", " ",
              "else", " ", "d", ";", " ", "else", " ", "e", ";">>,
     value |-> List(<<If(Id("a"), If(Id("b"), Id("c"), Id("d")), Id("e"))>>)],
    [src |-> <<"if", " ", "(", "a", ")", " ", "b", ";", " ", "else", " ", "if", " ", "(",
              "c", ")", " ", "d", ";", " ", "else", " ", "e", ";">>,
     value |-> List(<<If(Id("a"), Id("b"), If(Id("c"), Id("d"), Id("e")))>>)]
  >>

\* the four headers of the for statement (tests: test_iteration)
ForHeaders ==
  <<
    [src |-> <<"for", " ", "(", "x", " ", "in", " ", "y", ")", " ", "a", ";">>,
     value |-> List(<<ForIn(Id("x"), Id("y"), Id("a"))>>)],
    [src |-> <<"for", " ", "(", "var", " ", "x", " ", "in", " ", "y", ")", " ", "a", ";">>,
     value |-> List(<<ForIn(VariableDeclaration(Id("x"), None), Id("y"), Id("a"))>>)],
    [src |-> <<"for", " ", "(", "x", " ", "=", " ", "1", ";", " ", "x", " ", "<", " ", "y",
              ";", " ", "x", " ", "=", " ", "x", " ", "+", " ", "1", ")", " ", "a", ";">>,
     value |-> List(<<For(Assign(Id("x"), Str("="), Num("1")), BinOp(Str("<"), Id("x"), Id("y")),
                          Assign(Id("x"), Str("="), BinOp(Str("+"), Id("x"), Num("1"))),
                          Id("a"))>>)],
    [src |-> <<"for", " ", "(", "var", " ", "x", " ", "=", " ", "1", ";", " ", "x", " ",
              "<", " ", "y", ";", " ", "x", " ", "=", " ", "x", " ", "+", " ", "1", ")",
              " ", "a", ";">>,
     value |-> List(<<For(Var("x", Num("1")), BinOp(Str("<"), Id("x"), Id("y")),
                          Assign(Id("x"), Str("="), BinOp(Str("+"), Id("x"), Num("1"))),
                          Id("a"))>>)]
  >>

\* function declarations, calls and function expressions
FunctionPrograms ==
  <<
    [src |-> <<"function", " ", "foo", "(", "a", ",", " ", "b", ")", " ", "{", " ",
              "return", " ", "a", " ", "+", " ", "b", ";", " ", "}">>,
     value |-> List(<<FuncDecl(Id("foo"), List(<<Id("a"), Id("b")>>),
                              List(<<Return(BinOp(Str("+"), Id("a"), Id("b")))>>))>>)],
    [src |-> <<"foo", "(", "a", ",", " ", "b", ")", ";">>,
     value |-> List(<<FuncCall(Id("foo"), List(<<Id("a"), Id("b")>>))>>)],
    [src |-> <<"x", " ", "=", " ", "function", " ", "(", "a", ")", " ", "{", " ", "return",
              " ", "a", ";", " ", "}", ";">>,
     value |-> List(<<Assign(Id("x"), Str("="),
                            FuncDecl(None, List(<<Id("a")>>), List(<<Return(Id("a"))>>)))>>)],
    [src |-> <<"x", " ", "=", " ", "function", " ", "foo", "(", "a", ")", " ", "{", " ",
              "return", " ", "a", ";", " ", "}", ";">>,
     value |-> List(<<Assign(Id("x"), Str("="),
                            FuncDecl(Id("foo"), List(<<Id("a")>>), List(<<Return(Id("a"))>>)))>>)]
  >>

\* programs for the later calls of parse on one Parser
LaterPrograms ==
  <<
    [src |-> <<"a">>,
     value |-> List(<<Id("a")>>)],
    [src |-> <<"a", " ", "=", " ", "1", ";">>,
     value |-> List(<<Assign(Id("a"), Str("="), Num("1"))>>)],
    [src |-> <<"return", "\n", "a">>,
     value |-> List(<<Return(None), Id("a")>>)]
  >>

\* assignments of a literal, with the name of the node class of the literal as value
LiteralPrograms ==
  <<
    [src |-> <<"x", " ", "=", " ", "null", ";">>,
     value |-> "Null"],
    [src |-> <<"x", " ", "=", " ", "true", ";">>,
     value |-> "Boolean"],
    [src |-> <<"x", " ", "=", " ", "false", ";">>,
     value |-> "Boolean"],
    [src |-> <<"x", " ", "=", " ", "100", ";">>,
     value |-> "Number"],
    [src |-> <<"x", " ", "=", " ", "\"", "foo", "\"", ";">>,
     value |-> "String"],
    [src |-> <<"x", " ", "=", " ", "[", "]", ";">>,
     value |-> "Array"],
    [src |-> <<"x", " ", "=", " ", "[", "1", ",", " ", "2", "]", ";">>,
     value |-> "Array"],
    [src |-> <<"x", " ", "=", " ", "[", "1", ",", ",", "2", "]", ";">>,
     value |-> "Array"],
    [src |-> <<"x", " ", "=", " ", "[", ",", "]", ";">>,
     value |-> "Array"],
    [src |-> <<"x", " ", "=", " ", "{", "}", ";">>,
     value |-> "Object"],
    [src |-> <<"x", " ", "=", " ", "{", "a", ":", " ", "1", "}", ";">>,
     value |-> "Object"]
  >>

\* texts in which the scanner comes to a character that starts no token, with the first
\* 20 characters of the text from that character on as value
UnknownCharacters ==
  <<
    [src |-> <<"#">>,
     value |-> "#"],
    [src |-> <<"a", " ", "#", " ", "b">>,
     value |-> "# b"],
    [src |-> <<"a", "\n", "#">>,
     value |-> "#"],
    [src |-> <<"return", "\n", "#">>,
     value |-> "#"],
    [src |-> <<"a", " ", "=", " ", "\"", "foo">>,
     value |-> "\"foo"],
    [src |-> <<"a", " ", "+", " ", "#">>,
     value |-> "#"],
    [src |-> <<"{", " ", "#">>,
     value |-> "#"],
    [src |-> <<"#", " ", "function", " ", "foo", "(", "a", ",", " ", "b", ")", " ", "{",
              " ", "return", " ", "a", " ", "+", " ", "b", ";", " ", "}">>,
     value |-> "# function foo(a, b)"],
    [src |-> <<"a", " ", "=", " ", "#", " ", "return", " ", "continue", " ", "debugger">>,
     value |-> "# return continue de"]
  >>

\* switch statements, without and with a default clause
SwitchPrograms ==
  <<
    [src |-> <<"switch", " ", "(", "a", ")", " ", "{", " ", "case", " ", "1", ":", " ",
              "b", ";", " ", "case", " ", "2", ":", " ", "c", ";", " ", "}">>,
     value |-> List(<<Switch(Id("a"), List(<<Case(Num("1"), List(<<Id("b")>>)),
                                             Case(Num("2"), List(<<Id("c")>>))>>), None)>>)],
    [src |-> <<"switch", " ", "(", "a", ")", " ", "{", " ", "case", " ", "1", ":", " ",
              "b", ";", " ", "default", ":", " ", "c", ";", " ", "case", " ", "2", ":",
              " ", "d", ";", " ", "}">>,
     value |-> List(<<Switch(Id("a"), List(<<Case(Num("1"), List(<<Id("b")>>)),
                                             Case(Num("2"), List(<<Id("d")>>))>>),
                            DefaultCase(List(<<Id("c")>>)))>>)],
    [src |-> <<"switch", " ", "(", "a", ")", " ", "{", " ", "case", " ", "1", ":", " ",
              "b", ";", " ", "default", ":", " ", "c", ";", " ", "}">>,
     value |-> List(<<Switch(Id("a"), List(<<Case(Num("1"), List(<<Id("b")>>))>>),
                            DefaultCase(List(<<Id("c")>>)))>>)],
    [src |-> <<"switch", " ", "(", "a", ")", " ", "{", " ", "default", ":", " ", "b", ";",
              " ", "}">>,
     value |-> List(<<Switch(Id("a"), List(<<>>), DefaultCase(List(<<Id("b")>>)))>>)]
  >>

\* a binary operation on the identifiers a and b
AB(operator) == BinOp(Str(operator), Id("a"), Id("b"))

\* every binary operator between two operands: in an assignment (the ordinary rules), at the
\* start of an expression statement (the NoBF rules) and in the initialiser of a for header
\* (the NoIn rules)
BinaryOperators ==
  <<
    [src |-> <<"x", " ", "=", " ", "a", " ", "*", " ", "b", ";">>,
     value |-> List(<<Assign(Id("x"), Str("="), AB("*"))>>)],
    [src |-> <<"a", " ", "*", " ", "b", ";">>,
     value |-> List(<<AB("*")>>)],
    [src |-> <<"for", " ", "(", "x", " ", "=", " ", "a", " ", "*", " ", "b", ";", " ", "c",
              ";", " ", "d", ")", " ", "e", ";">>,
     value |-> List(<<For(Assign(Id("x"), Str("="), AB("*")), Id("c"), Id("d"), Id("e"))>>)],
    [src |-> <<"x", " ", "=", " ", "a", " ", "/", " ", "b", ";">>,
     value |-> List(<<Assign(Id("x"), Str("="), AB("/"))>>)],
    [src |-> <<"a", " ", "/", " ", "b", ";">>,
     value |-> List(<<AB("/")>>)],
    [src |-> <<"for", " ", "(", "x", " ", "=", " ", "a", " ", "/", " ", "b", ";", " ", "c",
              ";", " ", "d", ")", " ", "e", ";">>,
     value |-> List(<<For(Assign(Id("x"), Str("="), AB("/")), Id("c"), Id("d"), Id("e"))>>)],
    [src |-> <<"x", " ", "=", " ", "a", " ", "%", " ", "b", ";">>,
     value |-> List(<<Assign(Id("x"), Str("="), AB("%"))>>)],
    [src |-> <<"a", " ", "%", " ", "b", ";">>,
     value |-> List(<<AB("%")>>)],
    [src |-> <<"for", " ", "(", "x", " ", "=", " ", "a", " ", "%", " ", "b", ";", " ", "c",
              ";", " ", "d", ")", " ", "e", ";">>,
     value |-> List(<<For(Assign(Id("x"), Str("="), AB("%")), Id("c"), Id("d"), Id("e"))>>)],
    [src |-> <<"x", " ", "=", " ", "a", " ", "+", " ", "b", ";">>,
     value |-> List(<<Assign(Id("x"), Str("="), AB("+"))>>)],
    [src |-> <<"a", " ", "+", " ", "b", ";">>,
     value |-> List(<<AB("+")>>)],
    [src |-> <<"for", " ", "(", "x", " ", "=", " ", "a", " ", "+", " ", "b", ";", " ", "c",
              ";", " ", "d", ")", " ", "e", ";">>,
     value |-> List(<<For(Assign(Id("x"), Str("="), AB("+")), Id("c"), Id("d"), Id("e"))>>)],
    [src |-> <<"x", " ", "=", " ", "a", " ", "-", " ", "b", ";">>,
     value |-> List(<<Assign(Id("x"), Str("="), AB("-"))>>)],
    [src |-> <<"a", " ", "-", " ", "b", ";">>,
     value |-> List(<<AB("-")>>)],
    [src |-> <<"for", " ", "(", "x", " ", "=", " ", "a", " ", "-", " ", "b", ";", " ", "c",
              ";", " ", "d", ")", " ", "e", ";">>,
     value |-> List(<<For(Assign(Id("x"), Str("="), AB("-")), Id("c"), Id("d"), Id("e"))>>)],
    [src |-> <<"x", " ", "=", " ", "a", " ", "<", "<", " ", "b", ";">>,
     value |-> List(<<Assign(Id("x"), Str("="), AB("<<"))>>)],
    [src |-> <<"a", " ", "<", "<", " ", "b", ";">>,
     value |-> List(<<AB("<<")>>)],
    [src |-> <<"for", " ", "(", "x", " ", "=", " ", "a", " ", "<", "<", " ", "b", ";", " ",
              "c", ";", " ", "d", ")", " ", "e", ";">>,
     value |-> List(<<For(Assign(Id("x"), Str("="), AB("<<")), Id("c"), Id("d"), Id("e"))>>)],
    [src |-> <<"x", " ", "=", " ", "a", " ", ">", ">", " ", "b", ";">>,
     value |-> List(<<Assign(Id("x"), Str("="), AB(">>"))>>)],
    [src |-> <<"a", " ", ">", ">", " ", "b", ";">>,
     value |-> List(<<AB(">>")>>)],
    [src |-> <<"for", " ", "(", "x", " ", "=", " ", "a", " ", ">", ">", " ", "b", ";", " ",
              "c", ";", " ", "d", ")", " ", "e", ";">>,
     value |-> List(<<For(Assign(Id("x"), Str("="), AB(">>")), Id("c"), Id("d"), Id("e"))>>)],
    [src |-> <<"x", " ", "=", " ", "a", " ", ">", ">", ">", " ", "b", ";">>,
     value |-> List(<<Assign(Id("x"), Str("="), AB(">>>"))>>)],
    [src |-> <<"a", " ", ">", ">", ">", " ", "b", ";">>,
     value |-> List(<<AB(">>>")>>)],
    [src |-> <<"for", " ", "(", "x", " ", "=", " ", "a", " ", ">", ">", ">", " ", "b", ";",
              " ", "c", ";", " ", "d", ")", " ", "e", ";">>,
     value |-> List(<<For(Assign(Id("x"), Str("="), AB(">>>")), Id("c"), Id("d"), Id("e"))>>)],
    [src |-> <<"x", " ", "=", " ", "a", " ", "<", " ", "b", ";">>,
     value |-> List(<<Assign(Id("x"), Str("="), AB("<"))>>)],
    [src |-> <<"a", " ", "<", " ", "b", ";">>,
     value |-> List(<<AB("<")>>)],
    [src |-> <<"for", " ", "(", "x", " ", "=", " ", "a", " ", "<", " ", "b", ";", " ", "c",
              ";", " ", "d", ")", " ", "e", ";">>,
     value |-> List(<<For(Assign(Id("x"), Str("="), AB("<")), Id("c"), Id("d"), Id("e"))>>)],
    [src |-> <<"x", " ", "=", " ", "a", " ", ">", " ", "b", ";">>,
     value |-> List(<<Assign(Id("x"), Str("="), AB(">"))>>)],
    [src |-> <<"a", " ", ">", " ", "b", ";">>,
     value |-> List(<<AB(">")>>)],
    [src |-> <<"for", " ", "(", "x", " ", "=", " ", "a", " ", ">", " ", "b", ";", " ", "c",
              ";", " ", "d", ")", " ", "e", ";">>,
     value |-> List(<<For(Assign(Id("x"), Str("="), AB(">")), Id("c"), Id("d"), Id("e"))>>)],
    [src |-> <<"x", " ", "=", " ", "a", " ", "<", "=", " ", "b", ";">>,
     value |-> List(<<Assign(Id("x"), Str("="), AB("<="))>>)],
    [src |-> <<"a", " ", "<", "=", " ", "b", ";">>,
     value |-> List(<<AB("<=")>>)],
    [src |-> <<"for", " ", "(", "x", " ", "=", " ", "a", " ", "<", "=", " ", "b", ";", " ",
              "c", ";", " ", "d", ")", " ", "e", ";">>,
     value |-> List(<<For(Assign(Id("x"), Str("="), AB("<=")), Id("c"), Id("d"), Id("e"))>>)],
    [src |-> <<"x", " ", "=", " ", "a", " ", ">", "=", " ", "b", ";">>,
     value |-> List(<<Assign(Id("x"), Str("="), AB(">="))>>)],
    [src |-> <<"a", " ", ">", "=", " ", "b", ";">>,
     value |-> List(<<AB(">=")>>)],
    [src |-> <<"for", " ", "(", "x", " ", "=", " ", "a", " ", ">", "=", " ", "b", ";", " ",
              "c", ";", " ", "d", ")", " ", "e", ";">>,
     value |-> List(<<For(Assign(Id("x"), Str("="), AB(">=")), Id("c"), Id("d"), Id("e"))>>)],
    [src |-> <<"x", " ", "=", " ", "a", " ", "instanceof", " ", "b", ";">>,
     value |-> List(<<Assign(Id("x"), Str("="), AB("instanceof"))>>)],
    [src |-> <<"a", " ", "instanceof", " ", "b", ";">>,
     value |-> List(<<AB("instanceof")>>)],
    [src |-> <<"for", " ", "(", "x", " ", "=", " ", "a", " ", "instanceof", " ", "b", ";",
              " ", "c", ";", " ", "d", ")", " ", "e", ";">>,
     value |-> List(<<For(Assign(Id("x"), Str("="), AB("instanceof")), Id("c"), Id("d"), Id("e"))>>)],
    [src |-> <<"x", " ", "=", " ", "a", " ", "in", " ", "b", ";">>,
     value |-> List(<<Assign(Id("x"), Str("="), AB("in"))>>)],
    [src |-> <<"a", " ", "in", " ", "b", ";">>,
     value |-> List(<<AB("in")>>)],
    [src |-> <<"x", " ", "=", " ", "a", " ", "=", "=", " ", "b", ";">>,
     value |-> List(<<Assign(Id("x"), Str("="), AB("=="))>>)],
    [src |-> <<"a", " ", "=", "=", " ", "b", ";">>,
     value |-> List(<<AB("==")>>)],
    [src |-> <<"for", " ", "(", "x", " ", "=", " ", "a", " ", "=", "=", " ", "b", ";", " ",
              "c", ";", " ", "d", ")", " ", "e", ";">>,
     value |-> List(<<For(Assign(Id("x"), Str("="), AB("==")), Id("c"), Id("d"), Id("e"))>>)],
    [src |-> <<"x", " ", "=", " ", "a", " ", "!", "=", " ", "b", ";">>,
     value |-> List(<<Assign(Id("x"), Str("="), AB("!="))>>)],
    [src |-> <<"a", " ", "!", "=", " ", "b", ";">>,
     value |-> List(<<AB("!=")>>)],
    [src |-> <<"for", " ", "(", "x", " ", "=", " ", "a", " ", "!", "=", " ", "b", ";", " ",
              "c", ";", " ", "d", ")", " ", "e", ";">>,
     value |-> List(<<For(Assign(Id("x"), Str("="), AB("!=")), Id("c"), Id("d"), Id("e"))>>)],
    [src |-> <<"x", " ", "=", " ", "a", " ", "=", "=", "=", " ", "b", ";">>,
     value |-> List(<<Assign(Id("x"), Str("="), AB("==="))>>)],
    [src |-> <<"a", " ", "=", "=", "=", " ", "b", ";">>,
     value |-> List(<<AB("===")>>)],
    [src |-> <<"for", " ", "(", "x", " ", "=", " ", "a", " ", "=", "=", "=", " ", "b", ";",
              " ", "c", ";", " ", "d", ")", " ", "e", ";">>,
     value |-> List(<<For(Assign(Id("x"), Str("="), AB("===")), Id("c"), Id("d"), Id("e"))>>)],
    [src |-> <<"x", " ", "=", " ", "a", " ", "!", "=", "=", " ", "b", ";">>,
     value |-> List(<<Assign(Id("x"), Str("="), AB("!=="))>>)],
    [src |-> <<"a", " ", "!", "=", "=", " ", "b", ";">>,
     value |-> List(<<AB("!==")>>)],
    [src |-> <<"for", " ", "(", "x", " ", "=", " ", "a", " ", "!", "=", "=", " ", "b", ";",
              " ", "c", ";", " ", "d", ")", " ", "e", ";">>,
     value |-> List(<<For(Assign(Id("x"), Str("="), AB("!==")), Id("c"), Id("d"), Id("e"))>>)],
    [src |-> <<"x", " ", "=", " ", "a", " ", "&", " ", "b", ";">>,
     value |-> List(<<Assign(Id("x"), Str("="), AB("&"))>>)],
    [src |-> <<"a", " ", "&", " ", "b", ";">>,
     value |-> List(<<AB("&")>>)],
    [src |-> <<"for", " ", "(", "x", " ", "=", " ", "a", " ", "&", " ", "b", ";", " ", "c",
              ";", " ", "d", ")", " ", "e", ";">>,
     value |-> List(<<For(Assign(Id("x"), Str("="), AB("&")), Id("c"), Id("d"), Id("e"))>>)],
    [src |-> <<"x", " ", "=", " ", "a", " ", "^", " ", "b", ";">>,
     value |-> List(<<Assign(Id("x"), Str("="), AB("^"))>>)],
    [src |-> <<"a", " ", "^", " ", "b", ";">>,
     value |-> List(<<AB("^")>>)],
    [src |-> <<"for", " ", "(", "x", " ", "=", " ", "a", " ", "^", " ", "b", ";", " ", "c",
              ";", " ", "d", ")", " ", "e", ";">>,
     value |-> List(<<For(Assign(Id("x"), Str("="), AB("^")), Id("c"), Id("d"), Id("e"))>>)],
    [src |-> <<"x", " ", "=", " ", "a", " ", "|", " ", "b", ";">>,
     value |-> List(<<Assign(Id("x"), Str("="), AB("|"))>>)],
    [src |-> <<"a", " ", "|", " ", "b", ";">>,
     value |-> List(<<AB("|")>>)],
    [src |-> <<"for", " ", "(", "x", " ", "=", " ", "a", " ", "|", " ", "b", ";", " ", "c",
              ";", " ", "d", ")", " ", "e", ";">>,
     value |-> List(<<For(Assign(Id("x"), Str("="), AB("|")), Id("c"), Id("d"), Id("e"))>>)],
    [src |-> <<"x", " ", "=", " ", "a", " ", "&", "&", " ", "b", ";">>,
     value |-> List(<<Assign(Id("x"), Str("="), AB("&&"))>>)],
    [src |-> <<"a", " ", "&", "&", " ", "b", ";">>,
     value |-> List(<<AB("&&")>>)],
    [src |-> <<"for", " ", "(", "x", " ", "=", " ", "a", " ", "&", "&", " ", "b", ";", " ",
              "c", ";", " ", "d", ")", " ", "e", ";">>,
     value |-> List(<<For(Assign(Id("x"), Str("="), AB("&&")), Id("c"), Id("d"), Id("e"))>>)],
    [src |-> <<"x", " ", "=", " ", "a", " ", "|", "|", " ", "b", ";">>,
     value |-> List(<<Assign(Id("x"), Str("="), AB("||"))>>)],
    [src |-> <<"a", " ", "|", "|", " ", "b", ";">>,
     value |-> List(<<AB("||")>>)],
    [src |-> <<"for", " ", "(", "x", " ", "=", " ", "a", " ", "|", "|", " ", "b", ";", " ",
              "c", ";", " ", "d", ")", " ", "e", ";">>,
     value |-> List(<<For(Assign(Id("x"), Str("="), AB("||")), Id("c"), Id("d"), Id("e"))>>)]
  >>

\* return and throw with a comment between the keyword and the expression, all on one line
CommentAfterKeyword ==
  <<
    [src |-> <<"return", " ", "/", "*", " ", "x", " ", "*", "/", " ", "a", ";">>,
     value |-> List(<<Return(Id("a"))>>)],
    [src |-> <<"throw", " ", "/", "*", " ", "x", " ", "*", "/", " ", "a", ";">>,
     value |-> List(<<Throw(Id("a"))>>)],
    [src |-> <<"return", " ", "a", " ", "/", "*", " ", "x", " ", "*", "/", ";">>,
     value |-> List(<<Return(Id("a"))>>)]
  >>

\* two operators in one expression, with the tree of the grouping that precedence and
\* associativity give: at the start of an expression statement, behind an = and in a for header
Groupings ==
  <<
    [src |-> <<"a", " ", "-", " ", "b", " ", "-", " ", "c", ";">>,
     value |-> List(<<BinOp(Str("-"), BinOp(Str("-"), Id("a"), Id("b")), Id("c"))>>)],
    [src |-> <<"x", " ", "=", " ", "a", " ", "-", " ", "b", " ", "-", " ", "c", ";">>,
     value |-> List(<<Assign(Id("x"), Str("="), BinOp(Str("-"), BinOp(Str("-"), Id("a"), Id("b")), Id("c")))>>)],
    [src |-> <<"a", " ", "+", " ", "b", " ", "*", " ", "c", ";">>,
     value |-> List(<<BinOp(Str("+"), Id("a"), BinOp(Str("*"), Id("b"), Id("c")))>>)],
    [src |-> <<"x", " ", "=", " ", "a", " ", "+", " ", "b", " ", "*", " ", "c", ";">>,
     value |-> List(<<Assign(Id("x"), Str("="), BinOp(Str("+"), Id("a"), BinOp(Str("*"), Id("b"), Id("c"))))>>)],
    [src |-> <<"a", " ", "*", " ", "b", " ", "+", " ", "c", ";">>,
     value |-> List(<<BinOp(Str("+"), BinOp(Str("*"), Id("a"), Id("b")), Id("c"))>>)],
    [src |-> <<"x", " ", "=", " ", "a", " ", "*", " ", "b", " ", "+", " ", "c", ";">>,
     value |-> List(<<Assign(Id("x"), Str("="), BinOp(Str("+"), BinOp(Str("*"), Id("a"), Id("b")), Id("c")))>>)],
    [src |-> <<"a", " ", "|", "|", " ", "b", " ", "&", "&", " ", "c", ";">>,
     value |-> List(<<BinOp(Str("||"), Id("a"), BinOp(Str("&&"), Id("b"), Id("c")))>>)],
    [src |-> <<"x", " ", "=", " ", "a", " ", "|", "|", " ", "b", " ", "&", "&", " ", "c",
              ";">>,
     value |-> List(<<Assign(Id("x"), Str("="), BinOp(Str("||"), Id("a"), BinOp(Str("&&"), Id("b"), Id("c"))))>>)],
    [src |-> <<"a", " ", "&", "&", " ", "b", " ", "|", "|", " ", "c", ";">>,
     value |-> List(<<BinOp(Str("||"), BinOp(Str("&&"), Id("a"), Id("b")), Id("c"))>>)],
    [src |-> <<"x", " ", "=", " ", "a", " ", "&", "&", " ", "b", " ", "|", "|", " ", "c",
              ";">>,
     value |-> List(<<Assign(Id("x"), Str("="), BinOp(Str("||"), BinOp(Str("&&"), Id("a"), Id("b")), Id("c")))>>)],
    [src |-> <<"a", " ", "|", " ", "b", " ", "&", " ", "c", ";">>,
     value |-> List(<<BinOp(Str("|"), Id("a"), BinOp(Str("&"), Id("b"), Id("c")))>>)],
    [src |-> <<"x", " ", "=", " ", "a", " ", "|", " ", "b", " ", "&", " ", "c", ";">>,
     value |-> List(<<Assign(Id("x"), Str("="), BinOp(Str("|"), Id("a"), BinOp(Str("&"), Id("b"), Id("c"))))>>)],
    [src |-> <<"a", " ", "/", " ", "b", " ", "/", " ", "c", ";">>,
     value |-> List(<<BinOp(Str("/"), BinOp(Str("/"), Id("a"), Id("b")), Id("c"))>>)],
    [src |-> <<"x", " ", "=", " ", "a", " ", "/", " ", "b", " ", "/", " ", "c", ";">>,
     value |-> List(<<Assign(Id("x"), Str("="), BinOp(Str("/"), BinOp(Str("/"), Id("a"), Id("b")), Id("c")))>>)],
    [src |-> <<"a", " ", "?", " ", "b", " ", ":", " ", "c", " ", "?", " ", "d", " ", ":",
              " ", "e", ";">>,
     value |-> List(<<If(Id("a"), List(<<Id("b")>>), List(<<If(Id("c"), List(<<Id("d")>>), List(<<Id("e")>>))>>))>>)],
    [src |-> <<"x", " ", "=", " ", "a", " ", "?", " ", "b", " ", ":", " ", "c", " ", "?",
              " ", "d", " ", ":", " ", "e", ";">>,
     value |-> List(<<Assign(Id("x"), Str("="), If(Id("a"), List(<<Id("b")>>), List(<<If(Id("c"), List(<<Id("d")>>), List(<<Id("e")>>))>>)))>>)],
    [src |-> <<"a", " ", "=", " ", "b", " ", "=", " ", "c", ";">>,
     value |-> List(<<Assign(Id("a"), Str("="), Assign(Id("b"), Str("="), Id("c")))>>)],
    [src |-> <<"a", " ", "=", " ", "b", " ", "+", "=", " ", "c", ";">>,
     value |-> List(<<Assign(Id("a"), Str("="), Assign(Id("b"), Str("+="), Id("c")))>>)],
    [src |-> <<"for", " ", "(", "x", " ", "=", " ", "a", " ", "-", " ", "b", " ", "-", " ",
              "c", ";", " ", "d", ";", " ", "e", ")", " ", "g", ";">>,
     value |-> List(<<For(Assign(Id("x"), Str("="), BinOp(Str("-"), BinOp(Str("-"), Id("a"), Id("b")), Id("c"))), Id("d"), Id("e"), Id("g"))>>)]
  >>

\* two operators in one expression, one of them a shift, relational or equality operator
ShiftAndEqualityGroupings ==
  <<
    [src |-> <<"x", " ", "=", " ", "a", " ", "=", "=", " ", "b", " ", "=", "=", " ", "c",
              ";">>,
     value |-> List(<<Assign(Id("x"), Str("="), BinOp(Str("=="), BinOp(Str("=="), Id("a"), Id("b")), Id("c")))>>)],
    [src |-> <<"x", " ", "=", " ", "a", " ", "<", "<", " ", "b", " ", "<", "<", " ", "c",
              ";">>,
     value |-> List(<<Assign(Id("x"), Str("="), BinOp(Str("<<"), BinOp(Str("<<"), Id("a"), Id("b")), Id("c")))>>)],
    [src |-> <<"x", " ", "=", " ", "a", " ", "+", " ", "b", " ", "<", "<", " ", "c", ";">>,
     value |-> List(<<Assign(Id("x"), Str("="), BinOp(Str("<<"), BinOp(Str("+"), Id("a"), Id("b")), Id("c")))>>)],
    [src |-> <<"x", " ", "=", " ", "a", " ", "<", " ", "b", " ", "=", "=", " ", "c", ";">>,
     value |-> List(<<Assign(Id("x"), Str("="), BinOp(Str("=="), BinOp(Str("<"), Id("a"), Id("b")), Id("c")))>>)],
    [src |-> <<"a", " ", "<", " ", "b", " ", "<", " ", "c", ";">>,
     value |-> List(<<BinOp(Str("<"), BinOp(Str("<"), Id("a"), Id("b")), Id("c"))>>)]
  >>

\* object literals behind an =, in parentheses and as an argument
ObjectPositions ==
  <<
    [src |-> <<"x", " ", "=", " ", "{", "a", ":", " ", "1", "}", ";">>,
     value |-> List(<<Assign(Id("x"), Str("="), Object(List(<<Assign(Id("a"), Str(":"), Num("1"))>>)))>>)],
    [src |-> <<"x", " ", "=", " ", "{", "}", ";">>,
     value |-> List(<<Assign(Id("x"), Str("="), Object(List(<<>>)))>>)],
    [src |-> <<"(", "{", "a", ":", " ", "1", "}", ")", ";">>,
     value |-> List(<<Object(List(<<Assign(Id("a"), Str(":"), Num("1"))>>))>>)],
    [src |-> <<"foo", "(", "{", "a", ":", " ", "1", "}", ")", ";">>,
     value |-> List(<<FuncCall(Id("foo"), List(<<Object(List(<<Assign(Id("a"), Str(":"), Num("1"))>>))>>))>>)]
  >>

\* lists of one, two and three items: source elements, the statements of a block, arguments,
\* variable declarations, case clauses and the properties of an object literal
ListPrograms ==
  <<
    [src |-> <<"a", ";">>,
     value |-> List(<<Id("a")>>)],
    [src |-> <<"{", " ", "a", ";", " ", "}">>,
     value |-> List(<<List(<<Id("a")>>)>>)],
    [src |-> <<"foo", "(", "a", ")", ";">>,
     value |-> List(<<FuncCall(Id("foo"), List(<<Id("a")>>))>>)],
    [src |-> <<"var", " ", "a", ";">>,
     value |-> List(<<List(<<VariableDeclaration(Id("a"), None)>>)>>)],
    [src |-> <<"switch", " ", "(", "x", ")", " ", "{", " ", "case", " ", "0", ":", " ",
              "a", ";", " ", "}">>,
     value |-> List(<<Switch(Id("x"), List(<<Case(Num("0"), List(<<Id("a")>>))>>), None)>>)],
    [src |-> <<"x", " ", "=", " ", "{", "a", ":", " ", "0", "}", ";">>,
     value |-> List(<<Assign(Id("x"), Str("="), Object(List(<<Assign(Id("a"), Str(":"), Num("0"))>>)))>>)],
    [src |-> <<"a", ";", " ", "b", ";">>,
     value |-> List(<<Id("a"), Id("b")>>)],
    [src |-> <<"{", " ", "a", ";", " ", "b", ";", " ", "}">>,
     value |-> List(<<List(<<Id("a"), Id("b")>>)>>)],
    [src |-> <<"foo", "(", "a", ",", " ", "b", ")", ";">>,
     value |-> List(<<FuncCall(Id("foo"), List(<<Id("a"), Id("b")>>))>>)],
    [src |-> <<"var", " ", "a", ",", " ", "b", ";">>,
     value |-> List(<<List(<<VariableDeclaration(Id("a"), None), VariableDeclaration(Id("b"), None)>>)>>)],
    [src |-> <<"switch", " ", "(", "x", ")", " ", "{", " ", "case", " ", "0", ":", " ",
              "a", ";", " ", "case", " ", "1", ":", " ", "b", ";", " ", "}">>,
     value |-> List(<<Switch(Id("x"), List(<<Case(Num("0"), List(<<Id("a")>>)), Case(Num("1"), List(<<Id("b")>>))>>), None)>>)],
    [src |-> <<"x", " ", "=", " ", "{", "a", ":", " ", "0", ",", " ", "b", ":", " ", "1",
              "}", ";">>,
     value |-> List(<<Assign(Id("x"), Str("="), Object(List(<<Assign(Id("a"), Str(":"), Num("0")), Assign(Id("b"), Str(":"), Num("1"))>>)))>>)],
    [src |-> <<"a", ";", " ", "b", ";", " ", "c", ";">>,
     value |-> List(<<Id("a"), Id("b"), Id("c")>>)],
    [src |-> <<"{", " ", "a", ";", " ", "b", ";", " ", "c", ";", " ", "}">>,
     value |-> List(<<List(<<Id("a"), Id("b"), Id("c")>>)>>)],
    [src |-> <<"foo", "(", "a", ",", " ", "b", ",", " ", "c", ")", ";">>,
     value |-> List(<<FuncCall(Id("foo"), List(<<Id("a"), Id("b"), Id("c")>>))>>)],
    [src |-> <<"var", " ", "a", ",", " ", "b", ",", " ", "c", ";">>,
     value |-> List(<<List(<<VariableDeclaration(Id("a"), None), VariableDeclaration(Id("b"), None), VariableDeclaration(Id("c"), None)>>)>>)],
    [src |-> <<"switch", " ", "(", "x", ")", " ", "{", " ", "case", " ", "0", ":", " ",
              "a", ";", " ", "case", " ", "1", ":", " ", "b", ";", " ", "case", " ", "2",
              ":", " ", "c", ";", " ", "}">>,
     value |-> List(<<Switch(Id("x"), List(<<Case(Num("0"), List(<<Id("a")>>)), Case(Num("1"), List(<<Id("b")>>)), Case(Num("2"), List(<<Id("c")>>))>>), None)>>)],
    [src |-> <<"x", " ", "=", " ", "{", "a", ":", " ", "0", ",", " ", "b", ":", " ", "1",
              ",", " ", "c", ":", " ", "2", "}", ";">>,
     value |-> List(<<Assign(Id("x"), Str("="), Object(List(<<Assign(Id("a"), Str(":"), Num("0")), Assign(Id("b"), Str(":"), Num("1")), Assign(Id("c"), Str(":"), Num("2"))>>)))>>)],
    [src |-> <<"a", "\n", "b", "\n", "c">>,
     value |-> List(<<Id("a"), Id("b"), Id("c")>>)],
    [src |-> <<"a", ";", " ", ";", " ", "b", ";">>,
     value |-> List(<<Id("a"), None, Id("b")>>)]
  >>

\* function declarations with one, two and three parameters and statements, with the list of
\* the parameters and the list of the statements as value
FunctionLists ==
  <<
    [src |-> <<"function", " ", "foo", "(", "a", ")", " ", "{", " ", "a", ";", " ", "}">>,
     value |-> [parameters |-> List(<<Id("a")>>), statements |-> List(<<Id("a")>>)]],
    [src |-> <<"function", " ", "foo", "(", "a", ",", " ", "b", ")", " ", "{", " ", "a",
              ";", " ", "b", ";", " ", "}">>,
     value |-> [parameters |-> List(<<Id("a"), Id("b")>>), statements |-> List(<<Id("a"), Id("b")>>)]],
    [src |-> <<"function", " ", "foo", "(", "a", ",", " ", "b", ",", " ", "c", ")", " ",
              "{", " ", "a", ";", " ", "b", ";", " ", "c", ";", " ", "}">>,
     value |-> [parameters |-> List(<<Id("a"), Id("b"), Id("c")>>), statements |-> List(<<Id("a"), Id("b"), Id("c")>>)]]
  >>

\* statements with an in that no for header encloses: as the right operand of an equality,
\* bitwise or logical operator at the start of an expression statement, and elsewhere
InOutsideForHeader ==
  { <<"a", " ", "=", "=", " ", "b", " ", "in", " ", "c", ";">>,
    <<"a", " ", "&", " ", "b", " ", "in", " ", "c", ";">>,
    <<"a", " ", "^", " ", "b", " ", "in", " ", "c", ";">>,
    <<"a", " ", "|", " ", "b", " ", "in", " ", "c", ";">>,
    <<"a", " ", "&", "&", " ", "b", " ", "in", " ", "c", ";">>,
    <<"a", " ", "|", "|", " ", "b", " ", "in", " ", "c", ";">>,
    <<"a", " ", "in", " ", "b", ";">>,
    <<"a", " ", "+", " ", "b", " ", "in", " ", "c", ";">>,
    <<"x", " ", "=", " ", "a", " ", "=", "=", " ", "b", " ", "in", " ", "c", ";">>,
    <<"x", " ", "=", " ", "a", " ", "&", "&", " ", "b", " ", "in", " ", "c", ";">>,
    <<"foo", "(", "a", " ", "=", "=", " ", "b", " ", "in", " ", "c", ")", ";">>,
    <<"if", " ", "(", "a", " ", "=", "=", " ", "b", " ", "in", " ", "c", ")", " ", "d",
      ";">>,
    <<"var", " ", "x", " ", "=", " ", "a", " ", "=", "=", " ", "b", " ", "in", " ", "c",
      ";">>,
    <<"a", " ", "?", " ", "b", " ", "in", " ", "c", " ", ":", " ", "d", ";">> }

\* statements that start with a {
LeadingBrace ==
  { <<"{", " ", "a", ";", " ", "}">>,
    <<"{", " ", "a", " ", "}">>,
    <<"{", "}">>,
    <<"{", "}", ";">>,
    <<"{", "a", ":", " ", "1", "}", ";">>,
    <<"{", " ", "a", ":", " ", "1", ",", " ", "b", ":", " ", "2", " ", "}", ";">> }

\* statements that start with function
LeadingFunction ==
  { <<"function", " ", "(", ")", " ", "{", "}">>,
    <<"function", " ", "(", ")", " ", "{", "}", ";">>,
    <<"function", " ", "foo", "(", ")", " ", "{", "}">> }

\* function expressions behind an =, in parentheses and as an argument
FunctionExpressionPositions ==
  { <<"x", " ", "=", " ", "function", " ", "(", ")", " ", "{", "}", ";">>,
    <<"(", "function", " ", "(", ")", " ", "{", "}", ")", ";">>,
    <<"foo", "(", "function", " ", "(", ")", " ", "{", "}", ")", ";">> }

\* three-clause for headers with an in in the initialiser that no parenthesis,
\* bracket or conditional operator encloses
NoInHeaders ==
  { <<"for", " ", "(", "a", " ", "in", " ", "b", ";", " ", "c", ";", " ", "d", ")", " ",
      "e", ";">>,
    <<"for", " ", "(", "x", " ", "=", " ", "a", " ", "in", " ", "b", ";", " ", "c", ";",
      " ", "d", ")", " ", "e", ";">>,
    <<"for", " ", "(", "var", " ", "x", " ", "=", " ", "a", " ", "in", " ", "b", ";", " ",
      "c", ";", " ", "d", ")", " ", "e", ";">>,
    <<"for", " ", "(", "a", " ", "+", " ", "b", " ", "in", " ", "c", ";", " ", "d", ";",
      " ", "e", ")", " ", "x", ";">>,
    <<"for", " ", "(", "a", ",", " ", "b", " ", "in", " ", "c", ";", " ", "d", ";", " ",
      "e", ")", " ", "x", ";">>,
    <<"for", " ", "(", "a", " ", "|", "|", " ", "b", " ", "in", " ", "c", ";", " ", "d",
      ";", " ", "e", ")", " ", "x", ";">>,
    <<"for", " ", "(", "a", " ", "=", "=", " ", "b", " ", "in", " ", "c", ";", " ", "d",
      ";", " ", "e", ")", " ", "x", ";">>,
    <<"for", " ", "(", "var", " ", "x", " ", "=", " ", "a", ",", " ", "y", " ", "=", " ",
      "b", " ", "in", " ", "c", ";", " ", "d", ";", " ", "e", ")", " ", "x", ";">>,
    <<"for", " ", "(", "a", " ", "=", " ", "b", " ", "?", " ", "c", " ", ":", " ", "d",
      " ", "in", " ", "e", ";", " ", "d", ";", " ", "e", ")", " ", "x", ";">> }

\* three-clause for headers with an unparenthesised in between the ? and the : of a
\* conditional operator in the initialiser
ConditionalInHeaders ==
  { <<"for", " ", "(", "a", " ", "?", " ", "b", " ", "in", " ", "c", " ", ":", " ", "d",
      ";", " ", "d", ";", " ", "e", ")", " ", "x", ";">>,
    <<"for", " ", "(", "x", " ", "=", " ", "a", " ", "?", " ", "b", " ", "in", " ", "c",
      " ", ":", " ", "d", ";", " ", "d", ";", " ", "e", ")", " ", "x", ";">> }

\* programs that the grammar does not accept
RejectedPrograms ==
  { <<"a", " ", "+">>,
    <<"a", "\n", "b", " ", "c">>,
    <<"}">>,
    <<"a", " ", "=", " ", ";">>,
    <<"if", " ", "(", "a">>,
    <<"a", " ", "b">> }

\* further programs of the documentation and of the tests
Programs ==
  { <<"var", " ", "p", " ", "=", " ", "1", "\n", "var", " ", "q", " ", "=", " ", "2">>,
    <<"throw", "\n", "a">>,
    <<"for", " ", "(", "x", " ", "in", " ", "y", ")", " ", "{", "}">>,
    <<"for", " ", "(", "var", " ", "x", " ", "in", " ", "y", ")", " ", "{", "}">>,
    <<"for", " ", "(", "x", " ", "=", " ", "1", ";", " ", "x", " ", "<", " ", "y", ";",
      " ", "x", "+", "+", ")", " ", "{", "}">>,
    <<"var", " ", "=", " ", ";">>,
    <<"{">>,
    <<"a", "\n", ")">>,
    <<"a", "\n", "+", "+", ";">>,
    <<"foo", " ", "=", " ", "/", "bar", "/", ";">> }

\* the source texts of a family
Sources(family) == {family[n].src : n \in DOMAIN family}
\* two statements on two lines
TwoLines(first, second) == first.src \o <<"\n">> \o second.src
TwoLinePrograms ==
  {TwoLines(FirstStatements[m], SecondStatements[n]) :
     m \in DOMAIN FirstStatements, n \in DOMAIN SecondStatements}

(***************************************************************************)
(* Parser.parse: self.yacc.parse(input, lexer=self.lexer), the LALR(1)     *)
(* driver over the tables above.  Each action is one turn of its loop.     *)
(***************************************************************************)
VARIABLES
  text,         \* the input, as atoms
  lexpos,       \* self.lexer.lexer: the index of the next atom to scan
  lexstate,     \* self.lexer.lexer: the scanner state, INITIAL or regex
  next_tokens,  \* Lexer.next_tokens
  prev_token,   \* Lexer.prev_token
  curr_token,   \* Lexer.curr_token
  statestack,   \* the driver's stack of automaton states
  symstack,     \* the values of the symbols on the driver's stack
  lookahead,    \* the driver's lookahead token, NoToken when it has none
  status,       \* running, done (parse returned), error (parse raised), looping
  result,       \* the value returned or the exception raised
  delivered,    \* the tokens handed to the driver so far, and by whom: a scan of
                \* Lexer.token, its next_tokens (requeued) or auto_semicolon
  errSnaps,     \* the driver and lexer configurations in which p_error inserted a SEMI
  visits        \* the nodes a NodeVisitor has visited in the returned Program, in order

vars ==
  <<text, lexpos, lexstate, next_tokens, prev_token, curr_token, statestack, symstack,
    lookahead, status, result, delivered, errSnaps, visits>>

\* the lookahead the driver makes when the lexer returns None
EndToken == LexToken("$end", "", 0, 0)

\* Action for a grammar whose NoIn rules take IN wherever they take LT: what
\* InitialiserWithoutIn must tell from the tables of the source's grammar
ActionInAsLT(state, type) ==
  LET row == States[state + 1]
      seen == IF type = "IN" THEN "LT" ELSE type
      shifts == IF row[3] = 0 THEN {} ELSE {e \in ShiftMaps[row[3]] : e[1] = seen}
  IN IF shifts # {} THEN (CHOOSE e \in shifts : TRUE)[2]
     ELSE IF row[1] # 0 /\ seen \in LookaheadSets[row[2]] THEN -row[1]
     ELSE 0

\* the table entry for a state and a token type: j > 0 shift and go to state j,
\* -n < 0 reduce by production n, 0 a syntax error
Action(state, type) ==
  LET row == States[state + 1]
      shifts == IF row[3] = 0 THEN {} ELSE {e \in ShiftMaps[row[3]] : e[1] = type}
  IN IF shifts # {} THEN (CHOOSE e \in shifts : TRUE)[2]
     ELSE IF row[1] # 0 /\ type \in LookaheadSets[row[2]] THEN -row[1]
     ELSE 0

\* the state to enter from state with the nonterminal name on top
Goto(state, name) ==
  LET except == {e \in GotoExcept : e[1] = state /\ e[2] = name}
  IN IF except # {} THEN (CHOOSE e \in except : TRUE)[3] ELSE GotoDefault[name]

Top(stack) == stack[Len(stack)]

\* the text in a tiny alphabet, every sequence up to MaxLen atoms
MaxLen == 4
Alphabet == {"a", "\n", "+", "{", "}", ";", "return", "/"}
ShortTexts == UNION {[1..n -> Alphabet] : n \in 0..MaxLen}

\* the texts a run may start with
Texts ==
  ShortTexts \cup Programs \cup TwoLinePrograms \cup UnterminatedRegex
    \cup NoInHeaders \cup ConditionalInHeaders \cup RejectedPrograms
    \cup Sources(FunctionPrograms) \cup Sources(LaterPrograms)
    \cup Sources(LiteralPrograms) \cup Sources(UnknownCharacters)
    \cup Sources(SwitchPrograms) \cup Sources(BinaryOperators)
    \cup Sources(CommentAfterKeyword)
    \cup Sources(Groupings) \cup Sources(ShiftAndEqualityGroupings)
    \cup InOutsideForHeader
    \cup LeadingBrace \cup LeadingFunction \cup Sources(ObjectPositions)
    \cup FunctionExpressionPositions
    \cup Sources(ListPrograms) \cup Sources(FunctionLists)
    \cup Sources(RestrictedPrograms) \cup Sources(LineBreakIncrements)
    \cup Sources(PostfixPrograms) \cup Sources(DivisionPrograms)
    \cup Sources(RegexPrograms) \cup Sources(DanglingElse) \cup Sources(ForHeaders)

Init ==
  /\ text \in Texts
  /\ lexpos = 1
  /\ lexstate = "INITIAL"
  /\ next_tokens = <<>>
  /\ prev_token = NoToken
  /\ curr_token = NoToken
  /\ statestack = <<0>>
  /\ symstack = <<>>
  /\ lookahead = NoToken
  /\ status = "running"
  /\ result = None
  /\ delivered = <<>>
  /\ errSnaps = {}
  /\ visits = <<>>

\* parse raises exc
Raise(exc) ==
  /\ status' = "error"
  /\ result' = exc

\* the driver takes r, what Lexer.token gave, as its lookahead; a token that
\* came off next_tokens is requeued, any other one is the result of a scan
TakeToken(r) ==
  /\ lexpos' = r.pos
  /\ next_tokens' = r.next_tokens
  /\ prev_token' = r.prev
  /\ curr_token' = r.curr
  /\ IF r.exc # ""
     THEN /\ Raise(t_error(text, r.pos, r.exc))
          /\ UNCHANGED <<lookahead, delivered>>
     ELSE /\ lookahead' = IF r.tok = NoToken THEN EndToken ELSE r.tok
          /\ delivered' = Append(delivered, [tok |-> lookahead',
                                             by |-> IF next_tokens # <<>> THEN "requeued"
                                                    ELSE "scan"])
          /\ UNCHANGED <<status, result>>

\* if not lookahead: lookahead = get_token()
GetToken ==
  /\ status = "running"
  /\ UNCHANGED visits
  /\ lookahead = NoToken
  /\ TakeToken(token(text, lexpos, lexstate, next_tokens, prev_token, curr_token))
  /\ UNCHANGED <<text, lexstate, statestack, symstack, errSnaps>>

\* t > 0: shift the lookahead
Shift ==
  /\ status = "running"
  /\ UNCHANGED visits
  /\ lookahead # NoToken
  /\ Action(Top(statestack), lookahead.type) > 0
  /\ statestack' = Append(statestack, Action(Top(statestack), lookahead.type))
  /\ symstack' = Append(symstack, Str(lookahead.value))
  /\ lookahead' = NoToken
  /\ UNCHANGED <<text, lexpos, lexstate, next_tokens, prev_token, curr_token, status,
                 result, delivered, errSnaps>>

\* the p_ function of production prod gave value for the plen symbols on top
Reduced(name, plen, value) ==
  IF IsExc(value)
  THEN /\ Raise(value)
       /\ UNCHANGED <<statestack, symstack>>
  ELSE /\ symstack' = Append(SubSeq(symstack, 1, Len(symstack) - plen), value)
       /\ statestack' = Append(SubSeq(statestack, 1, Len(statestack) - plen),
                               Goto(statestack[Len(statestack) - plen], name))
       /\ UNCHANGED <<status, result>>

\* the driver reduces by prod: it calls the p_ function on the values on top
ReduceBy(prod) ==
  /\ prod.name # "S'"
  /\ Reduced(prod.name, Len(prod.syms),
             SemanticAction(prod.func, SubSeq(symstack, Len(symstack) - Len(prod.syms) + 1,
                                              Len(symstack))))

\* t < 0: reduce by production -t
Reduce ==
  /\ status = "running"
  /\ UNCHANGED visits
  /\ lookahead # NoToken
  /\ Action(Top(statestack), lookahead.type) < 0
  /\ ReduceBy(Productions[-Action(Top(statestack), lookahead.type)])
  /\ UNCHANGED <<text, lexpos, lexstate, next_tokens, prev_token, curr_token, lookahead,
                 delivered, errSnaps>>

\* t == 0 in the tables of ply: the start symbol is complete, parse returns its value
Accept ==
  /\ status = "running"
  /\ UNCHANGED visits
  /\ lookahead # NoToken
  /\ Action(Top(statestack), lookahead.type) < 0
  /\ Productions[-Action(Top(statestack), lookahead.type)].name = "S'"
  /\ status' = "done"
  /\ result' = Top(symstack)
  /\ UNCHANGED <<text, lexpos, lexstate, next_tokens, prev_token, curr_token, statestack,
                 symstack, lookahead, delivered, errSnaps>>

\* what decides every later step of the driver and the lexer, values aside
Snapshot ==
  [statestack |-> statestack, kinds |-> [n \in 1..Len(symstack) |-> symstack[n].k],
   lookahead |-> lookahead, lexpos |-> lexpos, next_tokens |-> next_tokens,
   prev_token |-> prev_token, curr_token |-> curr_token]

\* SyntaxError("%r unexpected at %d:%d" % (p.value, p.lineno, p.lexpos))
SyntaxError(p) ==
  [k |-> "exc", s |-> "SyntaxError", msg |-> "unexpected",
   value |-> p.value, lineno |-> p.lineno, lexpos |-> p.lexpos]

\* no table entry: the driver calls p_error(errtoken).  p_error either hands
\* back the SEMI of auto_semicolon as the new lookahead, after errok(), or
\* raises SyntaxError.  A SEMI inserted in a configuration in which one was
\* inserted before starts the same steps over: the parse does not end.
PError ==
  /\ status = "running"
  /\ UNCHANGED visits
  /\ lookahead # NoToken
  /\ Action(Top(statestack), lookahead.type) = 0
  /\ LET p == IF lookahead.type = "$end" THEN NoToken ELSE lookahead
         r == auto_semicolon(p, prev_token, next_tokens)
     IN IF (p = NoToken \/ p.type # "SEMI") /\ r.tok # NoToken
        THEN IF Snapshot \in errSnaps
             THEN /\ status' = "looping"
                  /\ UNCHANGED <<next_tokens, lookahead, result, delivered, errSnaps>>
             ELSE /\ next_tokens' = r.next_tokens
                  /\ lookahead' = r.tok
                  /\ delivered' = Append(delivered, [tok |-> r.tok, by |-> "auto_semicolon"])
                  /\ errSnaps' = errSnaps \cup {Snapshot}
                  /\ UNCHANGED <<status, result>>
        ELSE /\ Raise(SyntaxError(p))
             /\ UNCHANGED <<next_tokens, lookahead, delivered, errSnaps>>
  /\ UNCHANGED <<text, lexpos, lexstate, prev_token, curr_token, statestack, symstack>>

\* a NodeVisitor is sent through the Program that parse returned
Visit ==
  /\ status = "done"
  /\ visits = <<>>
  /\ visits' = visit(result)
  /\ UNCHANGED <<text, lexpos, lexstate, next_tokens, prev_token, curr_token, statestack,
                 symstack, lookahead, status, result, delivered, errSnaps>>

Next ==
  \/ GetToken
  \/ Shift
  \/ Reduce
  \/ Accept
  \/ PError
  \/ Visit

Spec == Init /\ [][Next]_vars

\* Parser.parse is called again on the same Parser, after a call that returned
\* or raised: Lexer.input hands the new text to the scanner, which starts at its
\* first character, and the driver starts with new stacks; next_tokens,
\* prev_token and curr_token of the Lexer are what the call before left
ParseAgain ==
  /\ status \in {"done", "error"}
  /\ text' \in Sources(LaterPrograms)
  /\ lexpos' = 1
  /\ statestack' = <<0>>
  /\ symstack' = <<>>
  /\ lookahead' = NoToken
  /\ status' = "running"
  /\ result' = None
  /\ delivered' = <<>>
  /\ errSnaps' = {}
  /\ visits' = <<>>
  /\ UNCHANGED <<lexstate, next_tokens, prev_token, curr_token>>

SessionNext ==
  \/ Next
  \/ ParseAgain

\* the calls of parse on one Parser, one after the other
SessionSpec == Init /\ [][SessionNext]_vars

\* a caller of the Lexer that has been given a / or /= as the lookahead calls
\* scan_regexp to read the text behind it as a regular expression literal; what
\* scan_regexp raises ends the parse, what it returns is the caller's result
ScanRegexp ==
  /\ status = "running"
  /\ lookahead.type \in {"DIVIDE", "DIVIDE_EQUALS"}
  /\ LET r == scan_regexp(text, lexpos, next_tokens, prev_token, curr_token)
     IN /\ lexstate' = r.state
        /\ lexpos' = r.lexer.pos
        /\ next_tokens' = r.lexer.next_tokens
        /\ prev_token' = r.lexer.prev
        /\ curr_token' = r.lexer.curr
        /\ delivered' = delivered \o r.read
        /\ result' = r.value
        /\ status' = IF IsExc(r.value) THEN "error" ELSE "scanned"
  /\ UNCHANGED <<text, statestack, symstack, lookahead, errSnaps, visits>>

RegexNext ==
  \/ Next
  \/ ParseAgain
  \/ ScanRegexp

\* parses on one Parser with a caller of scan_regexp
RegexSpec == Init /\ [][RegexNext]_vars

(***************************************************************************)
(* Properties of Parser.parse.                                             *)
(***************************************************************************)
\* parse has ended: it returned or it raised
Finished == status # "running"

\* parse returned the Program of these statements
Returned(statements) == status = "done" /\ result = Program(statements)

\* on every text of the family parse, once it has ended, has returned the
\* Program of the statements that the family gives for the text
Yields(family) ==
  \A n \in DOMAIN family : text = family[n].src /\ Finished => Returned(family[n].value)

\* C1: every call of Parser.parse ends, by returning the Program or by raising;
\* p_error never inserts a SEMI in a configuration of driver and lexer in which
\* it inserted one before, which would start the same insertion over without end.
ParseEnds == status # "looping"

\* C2: two statements separated by a line terminator only, the second one
\* starting with a token that cannot continue the first, parse to the two
\* statements in source order.
LineBreakSeparatesStatements ==
  \A m \in DOMAIN FirstStatements, n \in DOMAIN SecondStatements :
    text = TwoLines(FirstStatements[m], SecondStatements[n]) /\ Finished
      => Returned(List(FirstStatements[m].value.items \o SecondStatements[n].value.items))

RECURSIVE AtomAt(_, _, _)
\* the index of the atom of s that starts c characters into the text, from atom i on
AtomAt(s, c, i) == IF i > Len(s) \/ CharLen(s, 1, i) >= c THEN i ELSE AtomAt(s, c, i + 1)

\* the tokens that the scans of Lexer.token returned, in order
ScannedTokens == SelectSeq(delivered, LAMBDA d : d.by = "scan")

\* in the source a line terminator stands right after the text of tok
LineTerminatorFollows(tok) ==
  LET i == AtomAt(text, tok.lexpos + Len(tok.value), 1)
  IN i <= Len(text) /\ text[i] \in LineTermChars

\* C3: after Lexer.token returned continue, break, return or throw with a line
\* terminator right behind it in the source, the next token it returns is a SEMI,
\* whatever follows the line break; return, line break, 100 is a Return without
\* expression and the statement 100.
RestrictedKeywordEndsAtLineBreak ==
  /\ \A n \in 1..(Len(ScannedTokens) - 1) :
       /\ ScannedTokens[n].tok.type \in RestrictedTypes
       /\ LineTerminatorFollows(ScannedTokens[n].tok)
       => ScannedTokens[n + 1].tok.type = "SEMI"
  /\ Yields(RestrictedPrograms)

\* C4: a ++ or -- behind a line terminator is not a postfix operator of the
\* expression before the line break; it is the prefix operator of a new
\* statement: a, line break, ++b is the statement a and the statement ++b.
LineBreakBeforeIncrement == Yields(LineBreakIncrements)

\* C5: a ++ or -- right behind a left-hand-side expression, without a line
\* terminator between them, parses to UnaryOp(operator, expression, postfix=True),
\* as an expression statement and as the increment of a for header.
PostfixIncrement == Yields(PostfixPrograms)

\* C6: a / that follows a complete operand reaches the grammar as DIVIDE or
\* DIVIDE_EQUALS, and the scanner never enters its regex state; a = b / c / d
\* is Assign(a, =, BinOp(/, BinOp(/, b, c), d)).
SlashAfterOperand ==
  /\ lexstate = "INITIAL"
  /\ \A n \in DOMAIN delivered :
       /\ delivered[n].tok.type \notin {"SEMI", "$end"}
       /\ text[AtomAt(text, delivered[n].tok.lexpos, 1)] = "/"
       => delivered[n].tok.type \in {"DIVIDE", "DIVIDE_EQUALS"}
  /\ Yields(DivisionPrograms)

\* a = b / c / d has been parsed, its two / delivered as DIVIDE
SlashAfterOperandReached ==
  /\ text = DivisionPrograms[1].src
  /\ status = "done"
  /\ Len(SelectSeq(delivered, LAMBDA d : d.tok.type = "DIVIDE")) = 2

\* C7: a / where a primary expression starts is the start of a regular
\* expression literal; the text parses to a RegEx node with the pattern between
\* the slashes and the flags behind the closing one: a = /foo/g is
\* Assign(a, =, RegEx(foo, g)).
RegexLiteral == Yields(RegexPrograms)

\* C8: a regular expression literal that meets a line terminator or the end of
\* the text before its closing / makes parse raise the error of the regex scan
\* (t_regex_error or scan_regexp), not the SyntaxError of p_error.
UnterminatedRegexError ==
  text \in UnterminatedRegex /\ Finished
    => /\ status = "error"
       /\ result.msg \in {"Error parsing regular expression", "Invalid Regular Expression"}

\* C9: in nested if statements without braces an else belongs to the nearest if
\* that has none yet: in if (a) if (b) c; else d; the outer If has no false
\* branch and the inner If has d.
ElseBindsNearestIf == Yields(DanglingElse)

\* if (a) if (b) c; else d; has been parsed
ElseBindsNearestIfReached ==
  /\ text = DanglingElse[1].src
  /\ status = "done"
  /\ result.statements.items[1].true.k = "If"

\* C10: each of the four for headers parses: for (LHS in E) S and
\* for (var x in E) S to ForIn(item, iterator, statement), for (I; C; U) S and
\* for (var ...; C; U) S to For(initialisers, conditions, increments, statement),
\* every field filled from its part of the source.
ForStatements == Yields(ForHeaders)

\* parse raised SyntaxError
Rejected == status = "error" /\ result.s = "SyntaxError"

\* parse returned a Program whose only statement is a ForIn
ReadAsForIn ==
  /\ status = "done"
  /\ Len(result.statements.items) = 1
  /\ result.statements.items[1].k = "ForIn"

LineOf(c) ==
  1 + Cardinality({i \in 1..(AtomAt(text, c, 1) - 1) :
                     /\ text[i] \in LineTermChars
                     /\ ~(text[i] = "\r" /\ i < Len(text) /\ text[i + 1] = "\n")})

\* the source has the characters of value at offset c
StandsAt(value, c) ==
  LET i == AtomAt(text, c, 1)
  IN /\ CharLen(text, 1, i) = c
     /\ \E j \in (i + 1)..(Len(text) + 1) : Join(text, i, j) = value

\* C12: the SyntaxError that parse raises reports the text of a token of the
\* source, the offset at which that text stands and the number of its line; for
\* var = ; it reports = on line 1.
SyntaxErrorReportsSourceToken ==
  /\ Rejected => /\ StandsAt(result.value, result.lexpos)
                 /\ result.lineno = LineOf(result.lexpos)
  /\ text = <<"var", " ", "=", " ", ";">> /\ Finished
       => Rejected /\ result.value = "=" /\ result.lineno = 1

\* C13: a function declaration gives a FuncDecl with the Identifier of its name,
\* its parameters in source order and the statements of its body; a call gives a
\* FuncCall with the callee and the arguments in source order; a function
\* expression, named or not, gives a FuncDecl with its parameters and body.
FunctionsAndCalls == Yields(FunctionPrograms)

\* C14: what parse gives depends on the text alone: on a Parser that has parsed
\* before, whatever the earlier calls were given and however they ended, a text
\* of LaterPrograms gives the Program that it gives on a new Parser.
ParseDependsOnTextOnly == Yields(LaterPrograms)

\* C15: in the Program that parse returns for the assignment of a literal (null,
\* true, false, a number, a string, an array literal with or without elisions,
\* an object literal) the assigned expression is a node of the class of that
\* literal, never None.
LiteralsAreNodes ==
  \A n \in DOMAIN LiteralPrograms :
     text = LiteralPrograms[n].src /\ Finished
       => /\ status = "done"
          /\ Len(result.statements.items) = 1
          /\ result.statements.items[1].k = "Assign"
          /\ result.statements.items[1].expr.k = LiteralPrograms[n].value

\* parse raised the TypeError of t_error
LexError == status = "error" /\ result.s = "TypeError" /\ result.msg = "Unknown text"

\* C16: where the scanner comes to a character that starts no token, parse
\* raises the TypeError of t_error, with the text from that character on (its
\* first 20 characters) and a line number; the driver was given no token for it,
\* no SEMI of auto_semicolon either, every token it was given stands before the
\* character, and no Program is returned.
LexErrorAborts ==
  /\ \A n \in DOMAIN UnknownCharacters :
       text = UnknownCharacters[n].src /\ Finished
         => LexError /\ result.slice = UnknownCharacters[n].value /\ result.lineno >= 1
  /\ LexError
       => /\ lookahead = NoToken
          /\ lexpos <= Len(text) /\ text[lexpos] \notin IgnoreChars
          /\ result.slice = Slice(text, lexpos, 20)
          /\ \A n \in DOMAIN delivered :
               delivered[n].tok.lexpos < CharLen(text, 1, lexpos)

\* the unknown character of a, line break, # has ended the parse, after a line
\* break at which auto_semicolon would have given a SEMI
LexErrorAbortsReached ==
  /\ text = UnknownCharacters[3].src
  /\ LexError
  /\ prev_token.type = "LINE_TERMINATOR"

RECURSIVE NodesIn(_), NodesInItems(_, _), NodesInAttributes(_, _)
\* the nodes that the value v holds, itself included, whichever attribute of
\* which node holds them
NodesIn(v) ==
  IF v.k \in {"list", "tuple"} THEN NodesInItems(v.items, 1)
  ELSE IF IsNode(v) THEN <<v>> \o NodesInAttributes(v, DOMAIN v \ {"k", "postfix"})
  ELSE <<>>

NodesInItems(items, n) ==
  IF n > Len(items) THEN <<>> ELSE NodesIn(items[n]) \o NodesInItems(items, n + 1)

NodesInAttributes(node, names) ==
  IF names = {} THEN <<>>
  ELSE LET name == CHOOSE x \in names : TRUE
       IN NodesIn(node[name]) \o NodesInAttributes(node, names \ {name})

\* how often the value v occurs in the sequence seq
Occurrences(v, seq) == Cardinality({n \in DOMAIN seq : seq[n] = v})

\* C17: a NodeVisitor sent through the Program that parse returned visits every
\* node that the Program holds, in whichever attribute, and each of them once.
VisitorReachesEveryNode ==
  visits # <<>>
    => \A n \in DOMAIN NodesIn(result) :
         Occurrences(NodesIn(result)[n], visits) = Occurrences(NodesIn(result)[n], NodesIn(result))

\* C18: a switch statement gives a Switch whose cases are the case clauses of
\* the source in source order, those before and those after the default clause,
\* and whose default is the default clause where the source has one, also where
\* no case clause stands before or after it.
SwitchStatements == Yields(SwitchPrograms)

\* C19: every binary operator between two operands gives a BinOp with that
\* operator, the left operand as left and the right one as right, under the
\* ordinary rules, the NoIn rules and the NoBF rules alike.
BinaryOperatorsBuildBinOp == Yields(BinaryOperators)

\* the driver has a lookahead without table entry that p_error hands to
\* auto_semicolon: the end of the input or a token other than a SEMI
Reported ==
  /\ status = "running"
  /\ lookahead # NoToken
  /\ Action(Top(statestack), lookahead.type) = 0
  /\ lookahead.type # "SEMI"

\* in the source a line terminator stands right before the text of tok, with at
\* most blanks and tabs in between
LineTerminatorBefore(tok) ==
  LET i == AtomAt(text, tok.lexpos, 1)
  IN \E j \in 1..(i - 1) :
        /\ text[j] \in LineTermChars
        /\ \A m \in (j + 1)..(i - 1) : text[m] \in IgnoreChars

\* the token reported is one for which a SEMI is to be inserted
Rescued ==
  \/ lookahead.type = "$end"
  \/ lookahead.type = "RBRACE"
  \/ LineTerminatorBefore(lookahead)

\* C20: for a token reported to it auto_semicolon gives a SEMI, and puts the
\* token on next_tokens, exactly when the input has ended, the token is a } or
\* a line terminator stands right before the token; for any other token it
\* gives nothing, next_tokens stays as it is and parse raises the SyntaxError
\* on that token.  (Where the SEMI would be inserted in a configuration in
\* which one was inserted before, the run ends in status looping instead.)
AutoSemicolonRule ==
  [][Reported =>
       IF Rescued
       THEN \/ status' = "looping"
            \/ /\ status' = "running"
               /\ lookahead' = LexToken("SEMI", ";",
                                        IF lookahead.type = "$end" THEN 0 ELSE lookahead.lineno,
                                        IF lookahead.type = "$end" THEN 0 ELSE lookahead.lexpos)
               /\ next_tokens' = IF lookahead.type = "$end" THEN next_tokens
                                 ELSE Append(next_tokens, lookahead)
       ELSE /\ status' = "error"
            /\ result'.s = "SyntaxError"
            /\ result'.value = lookahead.value /\ result'.lexpos = lookahead.lexpos
            /\ next_tokens' = next_tokens]_vars

\* auto_semicolon has given a SEMI for a token, not a }, that stands at the
\* start of a line, and the token has been handed to the driver again
AutoSemicolonRuleReached ==
  \E n \in 2..(Len(delivered) - 1) :
     /\ delivered[n].by = "auto_semicolon"
     /\ delivered[n - 1].tok.type \notin {"$end", "RBRACE"}
     /\ LineTerminatorBefore(delivered[n - 1].tok)
     /\ delivered[n + 1].by = "requeued"
     /\ delivered[n + 1].tok = delivered[n - 1].tok

RECURSIVE SourceTokens(_)
\* the tokens of the text from atom i on, as one scan after the other gives
\* them, up to the end of the text or to a character that starts no token,
\* without the line terminators and comments
SourceTokens(i) ==
  LET r == LexerToken(text, i, "INITIAL")
  IN IF r.exc # "" \/ r.tok = NoToken THEN <<>>
     ELSE (IF r.tok.type \in SkippedTypes THEN <<>> ELSE <<r.tok>>) \o SourceTokens(r.pos)

\* the n-th token handed to the driver is a SEMI that Lexer.token or
\* auto_semicolon made: no ; stands at its place in the source
Synthetic(n) ==
  \/ delivered[n].by = "auto_semicolon"
  \/ delivered[n].tok.type = "SEMI" /\ ~StandsAt(";", delivered[n].tok.lexpos)

\* the n-th token handed to the driver was rejected and put on next_tokens
Replayed(n) == n < Len(delivered) /\ delivered[n + 1].by = "auto_semicolon"

\* the tokens of the source among those handed to the driver, each at the
\* delivery that p_error did not answer with a SEMI
SourceTokensTaken ==
  LET kept == SelectSeq([n \in DOMAIN delivered |-> [n |-> n, tok |-> delivered[n].tok]],
                        LAMBDA d : /\ d.tok.type # "$end"
                                   /\ ~Synthetic(d.n)
                                   /\ ~Replayed(d.n))
  IN [n \in DOMAIN kept |-> kept[n].tok]

\* taken is the start of source, and all of it once parse has returned
InSourceOrder(taken, source) ==
  /\ Len(taken) <= Len(source)
  /\ taken = SubSeq(source, 1, Len(taken))
  /\ status = "done" => taken = source

\* C21: the token handed to the driver right after a SEMI of auto_semicolon is
\* the token that was rejected, taken from next_tokens (none after the SEMI for
\* the end of the input); the tokens of the source reach the driver in source
\* order, none left out and none taken twice, all of them once parse has
\* returned, and nothing else reaches it but synthetic SEMIs and the end marker.
ReplayKeepsSourceOrder ==
  /\ \A n \in 2..(Len(delivered) - 1) :
       delivered[n].by = "auto_semicolon"
         => IF delivered[n - 1].tok.type = "$end" THEN delivered[n + 1].tok.type = "$end"
            ELSE delivered[n + 1] = [tok |-> delivered[n - 1].tok, by |-> "requeued"]
  /\ InSourceOrder(SourceTokensTaken, SourceTokens(1))

\* parse has returned after a token was rejected, put on next_tokens and handed
\* to the driver again behind the SEMI
ReplayKeepsSourceOrderReached ==
  /\ status = "done"
  /\ \E n \in DOMAIN delivered : delivered[n].by = "requeued"
  /\ Len(SourceTokens(1)) >= 3

\* C22: whatever calls of parse came before and wherever the current one
\* stands, next_tokens holds one token at most.
OneSlotRequeue == Len(next_tokens) <= 1

\* a later parse on the same Parser has put the token it rejected on next_tokens
OneSlotRequeueReached ==
  /\ Len(next_tokens) = 1
  /\ status = "running"
  /\ \E n \in DOMAIN delivered :
       /\ delivered[n].by = "requeued"
       /\ ~StandsAt(delivered[n].tok.value, delivered[n].tok.lexpos)
  /\ delivered[Len(delivered)].by = "auto_semicolon"

\* C23: a SEMI that Lexer.token makes without being asked comes right after
\* continue, break, return or throw and stands for a line terminator of the
\* source; a comment between such a keyword and the rest of the statement on
\* the same line gives no SEMI: return, a comment, a is the Return of a.
SemicolonOnlyAtLineBreak ==
  /\ \A n \in DOMAIN delivered :
       delivered[n].by = "scan" /\ Synthetic(n)
         => /\ n > 1 /\ delivered[n - 1].tok.type \in RestrictedTypes
            /\ text[AtomAt(text, delivered[n].tok.lexpos, 1)] \in LineTermChars
  /\ Yields(CommentAfterKeyword)

\* C24: no token that Lexer.token returned, from a scan, as the SEMI behind a
\* restricted keyword or from next_tokens, is a LINE_TERMINATOR, LINE_COMMENT
\* or BLOCK_COMMENT, and none waits on next_tokens or as the lookahead.
SkippedTokensStayHidden ==
  /\ \A n \in DOMAIN delivered : delivered[n].tok.type \notin SkippedTypes
  /\ \A n \in DOMAIN next_tokens : next_tokens[n].type \notin SkippedTypes
  /\ lookahead.type \notin SkippedTypes

\* parse has returned for a text with a line terminator behind a restricted
\* keyword, for which Lexer.token gave a SEMI, and with further tokens behind it
SkippedTokensStayHiddenReached ==
  /\ status = "done"
  /\ \E n \in 2..(Len(delivered) - 1) : delivered[n].by = "scan" /\ Synthetic(n)
  /\ \E i \in DOMAIN text : text[i] \in LineTermChars

\* C25: binary operators group by precedence and to the left, assignment and
\* the conditional operator to the right, and the tree of each expression
\* shows the grouping:  a - b - c  is  BinOp(-, BinOp(-, a, b), c),
\* a = b = c  is  Assign(a, =, Assign(b, =, c)), and likewise for the shift,
\* relational and equality operators.
GroupingInTree == Yields(Groupings) /\ Yields(ShiftAndEqualityGroupings)

\* C26: outside the initialiser of a for header the grammar accepts in as a
\* relational operator, also in the right operand of an equality, bitwise or
\* logical operator of an expression statement: parse returns a Program for
\* every such statement.
InAcceptedOutsideForHeader == text \in InOutsideForHeader /\ Finished => status = "done"

\* the kind of the first statement of the Program that parse returned
FirstStatementKind == result.statements.items[1].k

\* C27: a statement that starts with { is a Block (its statement list, or
\* None when it is empty), never an Object; a statement that starts with
\* function is a declaration or is rejected; behind an =, in parentheses and as
\* an argument an object literal gives its Object and a function expression is
\* accepted.
BlockOrObjectLiteral ==
  /\ text \in LeadingBrace /\ Finished
       => Rejected \/ (status = "done" /\ FirstStatementKind \in {"list", "None"})
  /\ text \in LeadingFunction /\ Finished
       => Rejected \/ (status = "done" /\ FirstStatementKind = "FuncDecl")
  /\ Yields(ObjectPositions)
  /\ text \in FunctionExpressionPositions /\ Finished => status = "done"

\* the offset at which the text of tok starts: for a ++ or -- that took the
\* line terminators before it into its match, the offset of its + or -
TextStart(tok) ==
  IF tok.type \in {"INCR_NO_LT", "DECR_NO_LT"}
  THEN LET i == AtomAt(text, tok.lexpos, 1)
           j == CHOOSE j \in i..Len(text) :
                  /\ text[j] \in {"+", "-"}
                  /\ \A m \in i..(j - 1) : text[m] \notin {"+", "-"}
       IN CharLen(text, 1, j)
  ELSE tok.lexpos

\* C28: every token that Lexer.token returned carries the number of its line,
\* 1 plus the line terminators before it (those that a ++ or -- took into its
\* match included), and the SyntaxError and the TypeError of the scanner
\* report the line of the token or character they are about.
LinesCounted ==
  /\ \A n \in DOMAIN delivered :
       delivered[n].tok.type # "$end"
         => delivered[n].tok.lineno = LineOf(TextStart(delivered[n].tok))
  /\ Rejected /\ result.value # "" => result.lineno = LineOf(result.lexpos)
  /\ LexError => result.lineno = LineOf(CharLen(text, 1, lexpos))

\* C29: the lists of build_list hold one entry for each item of the source, in
\* source order, for one, two and three items: the source elements of the
\* Program, the statements of a block, arguments, variable declarations, case
\* clauses, the properties of an object literal, and the parameters and the
\* statements of a function declaration.
ListsInSourceOrder ==
  /\ Yields(ListPrograms)
  /\ \A n \in DOMAIN FunctionLists :
       text = FunctionLists[n].src /\ Finished
         => /\ status = "done"
            /\ Len(result.statements.items) = 1
            /\ result.statements.items[1].parameters = FunctionLists[n].value.parameters
            /\ result.statements.items[1].statements = FunctionLists[n].value.statements

\* parse has returned for a function declaration with three parameters and
\* three statements
ListsInSourceOrderReached ==
  /\ text = FunctionLists[3].src
  /\ status = "done"
  /\ Len(result.statements.items[1].parameters.items) = 3
  /\ Len(result.statements.items[1].statements.items) = 3

\* C30: after every call of scan_regexp, whether it returned or raised, the
\* scanner is in state INITIAL, so that no token of a parse is scanned in state
\* regex, and no token that scan_regexp read came off next_tokens.
RegexModeLeft ==
  /\ lexstate = "INITIAL"
  /\ \A n \in DOMAIN delivered : delivered[n].by # "scan_regexp requeued"
=============================================================================
